---- MODULE Spec2Model ----
(***************************************************************************)
(* Model of omop_semantics.schema.registry: the ConceptRegistry (indexes,  *)
(* queries, validate, copy-on-write builders, merge) and RegistryDiff; and *)
(* of omop_semantics.runtime.resolver: OmopSemanticResolver,               *)
(* OmopTemplateRuntime and OmopRegistryRuntime.                            *)
(*                                                                         *)
(* Python values are modelled as follows.                                  *)
(*   str            a sequence of character codes (so that str.lower() is  *)
(*                  computed, not assumed); role tags, which the code only *)
(*                  compares for equality, are TLA+ strings                *)
(*   tuple / list   a sequence                                             *)
(*   dict           a sequence of [k, v] entries with distinct keys, in    *)
(*                  insertion order (Python dicts keep insertion order)    *)
(*   defaultdict    a function whose domain is the set of keys present     *)
(*   Optional[T]    <<>> for None, <<v>> for a value v                     *)
(*   a call         [self |-> the receiver after the call,                 *)
(*                   out  |-> Return(v) or Raise(exception, context)],     *)
(*                  with other |-> the argument registry after the call    *)
(*                  for merge and diff                                     *)
(***************************************************************************)
EXTENDS Integers, Sequences, FiniteSets, TLC

VARIABLES
    self,      \* the registry instance R the caller holds
    other,     \* a second registry the caller holds (argument of merge, diff)
    op,        \* name of the last method called on R
    arg,       \* the other arguments of that call
    result,    \* what the call returned or raised
    runtime,   \* the OmopRegistryRuntime instance the caller holds
    calls,     \* the calls of compile made by the runtime's compile_index so far
    threads    \* the frame of each thread that shares the runtime

vars == <<self, other, op, arg, result, runtime, calls, threads>>

\* the variables of the registry and those of the template runtime
regvars == <<self, other>>
rtvars == <<runtime, calls, threads>>

----------------------------------------------------------------------------
(* Bounds of the model.                                                    *)

\* concept identifiers are 1..MaxId
MaxId == 2

\* a caller makes no call that would take the number of compile calls made
\* on one runtime above MaxCalls
MaxCalls == 4

\* the threads that share one registry runtime are 1..NumThreads
NumThreads == 2

----------------------------------------------------------------------------
(* Python values.                                                          *)

None == <<>>
Some(v) == <<v>>

Return(v) == [kind |-> "return", value |-> v]
Raise(exc, ctx) == [kind |-> "raise", exc |-> exc, ctx |-> ctx]

\* str.lower() on ASCII text: 'A'..'Z' (65..90) map to 'a'..'z' (97..122).
lower(s) == [i \in DOMAIN s |-> IF s[i] \in 65..90 THEN s[i] + 32 ELSE s[i]]

\* Python's ordering of str values (lexicographic by code point).
RECURSIVE str_lt(_, _)
str_lt(s, t) ==
    IF t = <<>> THEN FALSE
    ELSE IF s = <<>> THEN TRUE
    ELSE IF s[1] # t[1] THEN s[1] < t[1]
    ELSE str_lt(Tail(s), Tail(t))

\* sorted(S) for a set of int: its elements as an increasing sequence.
RECURSIVE sorted_int(_)
sorted_int(S) ==
    IF S = {} THEN <<>>
    ELSE LET m == CHOOSE x \in S : \A y \in S \ {x} : x < y
         IN  <<m>> \o sorted_int(S \ {m})

\* sorted(S) for a set of str
RECURSIVE sorted_str(_)
sorted_str(S) ==
    IF S = {} THEN <<>>
    ELSE LET m == CHOOSE x \in S : \A y \in S \ {x} : str_lt(x, y)
         IN  <<m>> \o sorted_str(S \ {m})

\* set(t) of a tuple t
Range(t) == {t[i] : i \in DOMAIN t}

\* dict: insertion-ordered entries with distinct keys
EmptyDict == <<>>
dict_keys(d) == {d[i].k : i \in DOMAIN d}
dict_has(d, k) == \E i \in DOMAIN d : d[i].k = k
dict_get(d, k) == d[CHOOSE i \in DOMAIN d : d[i].k = k].v
dict_values(d) == [i \in DOMAIN d |-> d[i].v]
\* d[k] = v : an existing key keeps its position, a new key goes last
dict_set(d, k, v) ==
    IF dict_has(d, k)
    THEN [i \in DOMAIN d |-> IF d[i].k = k THEN [k |-> k, v |-> v] ELSE d[i]]
    ELSE Append(d, [k |-> k, v |-> v])

\* defaultdict / plain mapping whose order is never observed
EmptyMap == <<>>
map_get(f, k, default) == IF k \in DOMAIN f THEN f[k] ELSE default
map_set(f, k, v) == [x \in (DOMAIN f) \cup {k} |-> IF x = k THEN v ELSE f[x]]

\* no registry runtime is in play
NoRuntime == runtime = None /\ calls = <<>> /\ threads = <<>>

----------------------------------------------------------------------------
(* Records of schema_model.py.                                             *)

ConceptRecord(concept_id, label, role, parents, notes, value_type) ==
    [concept_id |-> concept_id, label |-> label, role |-> role,
     parents |-> parents, notes |-> notes, value_type |-> value_type]

ConceptGroupRecord(name, role, members, notes, kind, exclusive) ==
    [name |-> name, role |-> role, members |-> members,
     notes |-> notes, kind |-> kind, exclusive |-> exclusive]

RoleDefinition(name) == [name |-> name, description |-> None, category |-> None]

\* roles: the set of declared role names, each mapped to its RoleDefinition
SchemaInfo(roles, classes) ==
    [roles |-> [r \in roles |-> RoleDefinition(r)], classes |-> classes]

----------------------------------------------------------------------------
(* ConceptRegistry.__init__                                                *)

\* for cid in g.members: (lines 31-33)
RECURSIVE init_members(_, _, _)
init_members(acc, g, j) ==
    IF j > Len(g.members) THEN acc
    ELSE LET cid == g.members[j]
             inner == map_get(acc._groups_by_role, g.role, EmptyDict)
         IN  init_members(
                 [acc EXCEPT
                     !._groups_by_member =
                         map_set(@, cid, map_get(@, cid, {}) \cup {g.name}),
                     !._groups_by_role =
                         map_set(@, g.role, dict_set(inner, lower(g.name), g))],
                 g, j + 1)

\* for g in groups: (lines 29-33)
RECURSIVE init_groups(_, _, _)
init_groups(acc, groups, i) ==
    IF i > Len(groups) THEN acc
    ELSE LET g == groups[i]
         IN  init_groups(
                 init_members(
                     [acc EXCEPT !._groups = dict_set(@, lower(g.name), g)],
                     g, 1),
                 groups, i + 1)

\* the loop over concepts, were a record whose identifier is already
\* registered skipped instead of stored
RECURSIVE init_concepts_first_wins(_, _, _)
init_concepts_first_wins(acc, concepts, i) ==
    IF i > Len(concepts) THEN acc
    ELSE LET c == concepts[i]
         IN  init_concepts_first_wins(
                 IF dict_has(acc._concepts, c.concept_id) THEN acc
                 ELSE [acc EXCEPT
                          !._concepts = dict_set(@, c.concept_id, c),
                          !._by_role =
                              map_set(@, c.role, map_get(@, c.role, {}) \cup {c.concept_id}),
                          !._by_label = map_set(@, lower(c.label), c.concept_id)],
                 concepts, i + 1)

\* for c in concepts: (lines 35-38)
RECURSIVE init_concepts(_, _, _)
init_concepts(acc, concepts, i) ==
    IF i > Len(concepts) THEN acc
    ELSE LET c == concepts[i]
         IN  init_concepts(
                 [acc EXCEPT
                     !._concepts = dict_set(@, c.concept_id, c),
                     !._by_role =
                         map_set(@, c.role, map_get(@, c.role, {}) \cup {c.concept_id}),
                     !._by_label = map_set(@, lower(c.label), c.concept_id)],
                 concepts, i + 1)

ConceptRegistry(concepts, groups, schema) ==
    init_concepts(
        init_groups(
            [_concepts |-> EmptyDict,
             _groups |-> EmptyDict,
             _schema |-> schema,
             _by_role |-> EmptyMap,
             _by_label |-> EmptyMap,
             _groups_by_member |-> EmptyMap,
             _groups_by_role |-> EmptyMap,
             _ancestor_cache |-> EmptyMap],
            groups, 1),
        concepts, 1)

----------------------------------------------------------------------------
(* Queries.                                                                *)

schema(R) == R._schema

\* self._concepts.get(concept_id) in place of the subscript
get_or_none(R, concept_id) ==
    IF dict_has(R._concepts, concept_id)
    THEN Return(dict_get(R._concepts, concept_id))
    ELSE Return(None)

get(R, concept_id) ==
    IF dict_has(R._concepts, concept_id)
    THEN Return(dict_get(R._concepts, concept_id))
    ELSE Raise("KeyError", concept_id)

try_get(R, concept_id) ==
    IF dict_has(R._concepts, concept_id)
    THEN Some(dict_get(R._concepts, concept_id))
    ELSE None

has(R, concept_id) == dict_has(R._concepts, concept_id)

concepts(R) == dict_values(R._concepts)

groups(R) == dict_values(R._groups)

\* d[k] on a defaultdict: a missing key is inserted with the default value
map_getitem(f, k, default) ==
    [map |-> IF k \in DOMAIN f THEN f ELSE map_set(f, k, default),
     value |-> map_get(f, k, default)]

\* The role tags of the model in Python's str order; sorted() of a set of
\* role tags is the subsequence of the tags in the set.
RoleOrder == <<"unknown", "x", "y", "z">>
sorted_roles(S) == SelectSeq(RoleOrder, LAMBDA r : r \in S)

\* a SchemaInfo instance is always true: the dataclass defines no __bool__
roles(R) ==
    [self |-> R,
     out |-> Return(IF R._schema # None
                    THEN sorted_roles(DOMAIN R._schema[1].roles)
                    ELSE sorted_roles(DOMAIN R._by_role))]

\* self._by_role[role], as a subscript would read it: the defaultdict
\* inserts an empty set for a role it has not seen
by_role_subscript(R, role) ==
    LET item == map_getitem(R._by_role, role, {})
    IN  [self |-> [R EXCEPT !._by_role = item.map], out |-> Return(item.value)]

by_role(R, role) ==
    [self |-> R, out |-> Return(map_get(R._by_role, role, {}))]

is_role(R, concept_id, role) ==
    [self |-> R, out |-> Return(concept_id \in map_get(R._by_role, role, {}))]

unknowns(R) ==
    [self |-> R, out |-> Return(map_get(R._by_role, "unknown", {}))]

\* concept_id : Optional[int]
is_unknown(R, concept_id) ==
    [self |-> R,
     out |-> Return(\/ concept_id = None
                    \/ concept_id[1] \in map_get(R._by_role, "unknown", {}))]

default_unknown(R, label_hint) ==
    LET key == lower(label_hint)
        cid == R._by_label[key]
        unk == sorted_int(unknowns(R).out.value)
    IN  [self |-> R,
         out |-> IF key \in DOMAIN R._by_label
                    /\ is_unknown(R, Some(cid)).out.value
                 THEN Return(cid)
                 ELSE IF unk # <<>>
                 THEN Return(unk[1])
                 ELSE Raise("KeyError", "No unknown concepts registered")]

groups_for(R, concept_id) ==
    [self |-> R, out |-> Return(map_get(R._groups_by_member, concept_id, {}))]

\* concept_id in d and group in d[concept_id], without the first test
in_group_unguarded(R, concept_id, group) ==
    LET item == map_getitem(R._groups_by_member, concept_id, {})
    IN  [self |-> [R EXCEPT !._groups_by_member = item.map],
         out |-> Return(group \in item.value)]

in_group(R, concept_id, group) ==
    IF concept_id \in DOMAIN R._groups_by_member
    THEN LET item == map_getitem(R._groups_by_member, concept_id, {})
         IN  [self |-> [R EXCEPT !._groups_by_member = item.map],
              out |-> Return(group \in item.value)]
    ELSE [self |-> R, out |-> Return(FALSE)]

groups_by_role(R, role) ==
    [self |-> R, out |-> Return(map_get(R._groups_by_role, role, EmptyDict))]

by_label(R, label) ==
    [self |-> R,
     out |-> IF lower(label) \in DOMAIN R._by_label
             THEN Return(R._by_label[lower(label)])
             ELSE Raise("KeyError", lower(label))]

try_by_label(R, label) ==
    [self |-> R,
     out |-> Return(IF lower(label) \in DOMAIN R._by_label
                    THEN Some(R._by_label[lower(label)])
                    ELSE None)]

summary(R) ==
    [self |-> R,
     out |-> Return([concepts |-> Len(R._concepts),
                     groups |-> Len(R._groups),
                     roles |-> Cardinality(DOMAIN R._by_role)])]

\* Every name an instance of ConceptRegistry has: the methods and the
\* property of the class and the attributes __init__ sets.
ConceptRegistryAttributes ==
    {"_concepts", "_groups", "_schema", "_by_role", "_by_label",
     "_groups_by_member", "_groups_by_role", "_ancestor_cache",
     "schema", "get", "try_get", "has", "concepts", "groups", "roles",
     "describe_role", "classes", "by_role", "is_role", "unknowns", "is_unknown",
     "default_unknown", "group", "groups_for", "try_group", "group_members",
     "in_group", "groups_by_role", "by_label", "try_by_label", "require",
     "validate", "to_linkml_instances", "with_concepts", "with_groups",
     "with_schema", "with_added_concept", "with_updated_concept", "diff",
     "merge", "summary", "_role_counts_sorted", "_top_groups", "_unknown_count",
     "_repr_html_"}

\* R.<name>: attribute lookup on a registry
getattr(R, name) ==
    IF name \in ConceptRegistryAttributes
    THEN Return(name)
    ELSE Raise("AttributeError", name)

\* R.ancestors_of(concept_id).  The class has no such method: __init__ makes
\* the empty dict _ancestor_cache (line 40) and nothing reads or fills it.
ancestors_of(R, concept_id) == [self |-> R, out |-> getattr(R, "ancestors_of")]

----------------------------------------------------------------------------
(* ConceptRegistry.validate                                                *)

Min(S) == CHOOSE x \in S : \A y \in S : x <= y

RequiredClasses == {"OmopConcept", "ConceptGroup"}

\* lines 170-174, inside `if strict_schema_classes:`.  `if self._schema:`
\* is true for every SchemaInfo (a dataclass without __bool__ or __len__)
\* and false for None.
schema_classes_error(R) ==
    LET missing == RequiredClasses \ R._schema[1].classes
    IN  IF R._schema # None /\ missing # {}
        THEN Some(Raise("ValueError", [check |-> "schema_classes", missing |-> missing]))
        ELSE None
\* role_error reading the wrong attribute of the schema (classes for roles)
role_error_wrong_attribute(R) ==
    LET cs == dict_values(R._concepts)
        gs == dict_values(R._groups)
        declared == R._schema[1].classes
        bad_c == {i \in DOMAIN cs : cs[i].role \notin declared}
        bad_g == {i \in DOMAIN gs : gs[i].role \notin declared}
    IN  IF bad_c # {}
        THEN Some(Raise("ValueError",
                    [check |-> "concept_role",
                     concept_id |-> cs[Min(bad_c)].concept_id,
                     role |-> cs[Min(bad_c)].role]))
        ELSE IF bad_g # {}
        THEN Some(Raise("ValueError",
                    [check |-> "group_role",
                     name |-> gs[Min(bad_g)].name,
                     role |-> gs[Min(bad_g)].role]))
        ELSE None

\* role_error without the loop over the groups
role_error_concepts_only(R) ==
    LET cs == dict_values(R._concepts)
        declared == DOMAIN R._schema[1].roles
        bad_c == {i \in DOMAIN cs : cs[i].role \notin declared}
    IN  IF bad_c # {}
        THEN Some(Raise("ValueError",
                    [check |-> "concept_role",
                     concept_id |-> cs[Min(bad_c)].concept_id,
                     role |-> cs[Min(bad_c)].role]))
        ELSE None

\* lines 178-184, inside `if strict_roles and self._schema:`; the loop over
\* the concepts runs to its end before the loop over the groups starts.
role_error(R) ==
    LET cs == dict_values(R._concepts)
        gs == dict_values(R._groups)
        declared == DOMAIN R._schema[1].roles
        bad_c == {i \in DOMAIN cs : cs[i].role \notin declared}
        bad_g == {i \in DOMAIN gs : gs[i].role \notin declared}
    IN  IF bad_c # {}
        THEN Some(Raise("ValueError",
                    [check |-> "concept_role",
                     concept_id |-> cs[Min(bad_c)].concept_id,
                     role |-> cs[Min(bad_c)].role]))
        ELSE IF bad_g # {}
        THEN Some(Raise("ValueError",
                    [check |-> "group_role",
                     name |-> gs[Min(bad_g)].name,
                     role |-> gs[Min(bad_g)].role]))
        ELSE None

\* lines 188-193, inside `if strict_parents:`
parent_error(R) ==
    LET cs == dict_values(R._concepts)
        bad_pid(c) == {j \in DOMAIN c.parents : ~dict_has(R._concepts, c.parents[j])}
        bad == {i \in DOMAIN cs : bad_pid(cs[i]) # {}}
    IN  IF bad # {}
        THEN LET c == cs[Min(bad)]
             IN  Some(Raise("ValueError",
                        [check |-> "parent",
                         concept_id |-> c.concept_id,
                         parent |-> c.parents[Min(bad_pid(c))]]))
        ELSE None
\* group_member_error looking the member up in the reverse-membership index
\* instead of the concept map
group_member_error_wrong_index(R) ==
    LET gs == dict_values(R._groups)
        bad_mid(g) == {j \in DOMAIN g.members :
                          g.members[j] \notin DOMAIN R._groups_by_member}
        bad == {i \in DOMAIN gs : bad_mid(gs[i]) # {}}
    IN  IF bad # {}
        THEN LET g == gs[Min(bad)]
             IN  Some(Raise("ValueError",
                        [check |-> "group_member",
                         name |-> g.name,
                         member |-> g.members[Min(bad_mid(g))]]))
        ELSE None

\* lines 197-202, inside `if strict_group_members:`
group_member_error(R) ==
    LET gs == dict_values(R._groups)
        bad_mid(g) == {j \in DOMAIN g.members : ~dict_has(R._concepts, g.members[j])}
        bad == {i \in DOMAIN gs : bad_mid(gs[i]) # {}}
    IN  IF bad # {}
        THEN LET g == gs[Min(bad)]
             IN  Some(Raise("ValueError",
                        [check |-> "group_member",
                         name |-> g.name,
                         member |-> g.members[Min(bad_mid(g))]]))
        ELSE None

\* The checks run in the order of the code and the first failure is raised;
\* nothing else is checked (there is no traversal of the parent graph).
validate(R, strict_roles, strict_parents, strict_group_members, strict_schema_classes) ==
    LET e1 == IF R._schema # None /\ strict_schema_classes
              THEN schema_classes_error(R) ELSE None
        e2 == IF strict_roles /\ R._schema # None THEN role_error(R) ELSE None
        e3 == IF strict_parents THEN parent_error(R) ELSE None
        e4 == IF strict_group_members THEN group_member_error(R) ELSE None
    IN  [self |-> R,
         out |-> IF e1 # None THEN e1[1]
                 ELSE IF e2 # None THEN e2[1]
                 ELSE IF e3 # None THEN e3[1]
                 ELSE IF e4 # None THEN e4[1]
                 ELSE Return(None)]

----------------------------------------------------------------------------
(* Copy-on-write builders.                                                 *)

with_concepts(R, new_concepts) ==
    [self |-> R,
     out |-> Return(ConceptRegistry(new_concepts, dict_values(R._groups), R._schema))]

with_groups(R, new_groups) ==
    [self |-> R,
     out |-> Return(ConceptRegistry(dict_values(R._concepts), new_groups, R._schema))]

with_schema(R, new_schema) ==
    [self |-> R,
     out |-> Return(ConceptRegistry(dict_values(R._concepts), dict_values(R._groups),
                                    new_schema))]

\* with_added_concept storing the concept in the receiver's own map and
\* indexes (self._concepts[concept.concept_id] = concept; return self)
with_added_concept_in_place(R, concept) ==
    LET mutated == init_concepts(R, <<concept>>, 1)
    IN  [self |-> mutated, out |-> Return(mutated)]

\* concepts = list(self._concepts.values()); concepts.append(concept)
with_added_concept(R, concept) ==
    [self |-> R,
     out |-> Return(ConceptRegistry(Append(dict_values(R._concepts), concept),
                                    dict_values(R._groups), R._schema))]

ConceptRecordFields ==
    {"concept_id", "label", "role", "parents", "notes", "value_type"}

\* dataclasses.replace(base, **changes)
replace(base, changes) ==
    IF DOMAIN changes \subseteq ConceptRecordFields
    THEN Return([f \in ConceptRecordFields |->
                    IF f \in DOMAIN changes THEN changes[f] ELSE base[f]])
    ELSE Raise("TypeError", (DOMAIN changes) \ ConceptRecordFields)

with_updated_concept(R, concept_id, changes) ==
    LET base == get(R, concept_id)
        updated == replace(base.value, changes)
        cs == dict_values(R._concepts)
    IN  IF "concept_id" \in DOMAIN changes
        THEN \* the keyword collides with the positional parameter concept_id
             [self |-> R, out |-> Raise("TypeError", {"concept_id"})]
        ELSE IF base.kind = "raise" THEN [self |-> R, out |-> base]
        ELSE IF updated.kind = "raise" THEN [self |-> R, out |-> updated]
        ELSE [self |-> R,
              out |-> Return(ConceptRegistry(
                        [i \in DOMAIN cs |->
                            IF cs[i].concept_id = concept_id THEN updated.value ELSE cs[i]],
                        dict_values(R._groups), R._schema))]

----------------------------------------------------------------------------
(* ConceptRegistry.merge                                                   *)

\* merge_items without the `if c1 != c2:` test before the strategy branches
RECURSIVE merge_items_no_equality_test(_, _, _, _)
merge_items_no_equality_test(mine, theirs, strategy, i) ==
    IF i > Len(theirs) THEN Return(mine)
    ELSE LET key == theirs[i].k
             v2 == theirs[i].v
         IN  IF ~dict_has(mine, key)
             THEN merge_items_no_equality_test(dict_set(mine, key, v2), theirs, strategy, i + 1)
             ELSE LET v1 == dict_get(mine, key)
                  IN  IF strategy = "prefer_other"
                      THEN merge_items_no_equality_test(dict_set(mine, key, v2), theirs,
                                                        strategy, i + 1)
                      ELSE IF strategy = "error"
                      THEN Raise("ValueError", [key |-> key, v1 |-> v1, v2 |-> v2])
                      ELSE merge_items_no_equality_test(mine, theirs, strategy, i + 1)

\* merge_items written as dict.update(): the argument's value always wins
RECURSIVE merge_items_update(_, _, _, _)
merge_items_update(mine, theirs, strategy, i) ==
    IF i > Len(theirs) THEN Return(mine)
    ELSE LET key == theirs[i].k
             v2 == theirs[i].v
         IN  IF dict_has(mine, key) /\ dict_get(mine, key) # v2 /\ strategy = "error"
             THEN Raise("ValueError", [key |-> key, v1 |-> dict_get(mine, key), v2 |-> v2])
             ELSE merge_items_update(dict_set(mine, key, v2), theirs, strategy, i + 1)

\* One of the two loops of merge (over other._concepts.items(), then over
\* other._groups.items()): mine is the copy of self's dict being filled.
RECURSIVE merge_items(_, _, _, _)
merge_items(mine, theirs, strategy, i) ==
    IF i > Len(theirs) THEN Return(mine)
    ELSE LET key == theirs[i].k
             v2 == theirs[i].v
         IN  IF ~dict_has(mine, key)
             THEN merge_items(dict_set(mine, key, v2), theirs, strategy, i + 1)
             ELSE LET v1 == dict_get(mine, key)
                  IN  IF v1 # v2 /\ strategy = "prefer_other"
                      THEN merge_items(dict_set(mine, key, v2), theirs, strategy, i + 1)
                      ELSE IF v1 # v2 /\ strategy = "error"
                      THEN Raise("ValueError", [key |-> key, v1 |-> v1, v2 |-> v2])
                      ELSE merge_items(mine, theirs, strategy, i + 1)

\* merge, were prefer_other treated as prefer_self
merge_prefer_self(R, other_, strategy) ==
    LET s == IF strategy = "error" THEN "error" ELSE "prefer_self"
        merged_concepts == merge_items(R._concepts, other_._concepts, s, 1)
        merged_groups == merge_items(R._groups, other_._groups, s, 1)
        merged_schema == IF R._schema # None THEN R._schema ELSE other_._schema
    IN  IF merged_concepts.kind = "raise"
        THEN [self |-> R, other |-> other_, out |-> merged_concepts]
        ELSE IF merged_groups.kind = "raise"
        THEN [self |-> R, other |-> other_, out |-> merged_groups]
        ELSE [self |-> R, other |-> other_,
              out |-> Return(ConceptRegistry(dict_values(merged_concepts.value),
                                             dict_values(merged_groups.value),
                                             merged_schema))]

\* merge, were the concepts that only the other registry has left out
merge_without_additions(R, other_, strategy) ==
    LET merged_concepts == merge_items(R._concepts, other_._concepts, strategy, 1)
        merged_groups == merge_items(R._groups, other_._groups, strategy, 1)
        merged_schema == IF R._schema # None THEN R._schema ELSE other_._schema
    IN  IF merged_concepts.kind = "raise"
        THEN [self |-> R, other |-> other_, out |-> merged_concepts]
        ELSE IF merged_groups.kind = "raise"
        THEN [self |-> R, other |-> other_, out |-> merged_groups]
        ELSE [self |-> R, other |-> other_,
              out |-> Return(ConceptRegistry(
                        dict_values(SelectSeq(merged_concepts.value,
                                        LAMBDA e : dict_has(R._concepts, e.k))),
                        dict_values(merged_groups.value),
                        merged_schema))]

\* concepts = dict(self._concepts) and groups = dict(self._groups) are copies:
\* filling them changes neither registry.
merge(R, other_, strategy) ==
    LET merged_concepts == merge_items(R._concepts, other_._concepts, strategy, 1)
        merged_groups == merge_items(R._groups, other_._groups, strategy, 1)
        merged_schema == IF R._schema # None THEN R._schema ELSE other_._schema
    IN  IF merged_concepts.kind = "raise"
        THEN [self |-> R, other |-> other_, out |-> merged_concepts]
        ELSE IF merged_groups.kind = "raise"
        THEN [self |-> R, other |-> other_, out |-> merged_groups]
        ELSE [self |-> R, other |-> other_,
              out |-> Return(ConceptRegistry(dict_values(merged_concepts.value),
                                             dict_values(merged_groups.value),
                                             merged_schema))]

----------------------------------------------------------------------------
(* RegistryDiff                                                            *)

\* from_registries without the value comparison in `changed`
from_registries_changed_all(a, b) ==
    LET a_ids == dict_keys(a._concepts)
        b_ids == dict_keys(b._concepts)
        a_g == dict_keys(a._groups)
        b_g == dict_keys(b._groups)
    IN  [added_concepts   |-> sorted_int(b_ids \ a_ids),
         removed_concepts |-> sorted_int(a_ids \ b_ids),
         changed_concepts |-> sorted_int(a_ids \cap b_ids),
         added_groups     |-> sorted_str(b_g \ a_g),
         removed_groups   |-> sorted_str(a_g \ b_g),
         changed_groups   |-> sorted_str(a_g \cap b_g)]

\* from_registries with the two group differences exchanged
from_registries_groups_swapped(a, b) ==
    LET a_ids == dict_keys(a._concepts)
        b_ids == dict_keys(b._concepts)
        a_g == dict_keys(a._groups)
        b_g == dict_keys(b._groups)
    IN  [added_concepts   |-> sorted_int(b_ids \ a_ids),
         removed_concepts |-> sorted_int(a_ids \ b_ids),
         changed_concepts |-> sorted_int({cid \in a_ids \cap b_ids :
                                 dict_get(a._concepts, cid) # dict_get(b._concepts, cid)}),
         added_groups     |-> sorted_str(a_g \ b_g),
         removed_groups   |-> sorted_str(b_g \ a_g),
         changed_groups   |-> sorted_str({g \in a_g \cap b_g :
                                 dict_get(a._groups, g) # dict_get(b._groups, g)})]

from_registries(a, b) ==
    LET a_ids == dict_keys(a._concepts)
        b_ids == dict_keys(b._concepts)
        a_g == dict_keys(a._groups)
        b_g == dict_keys(b._groups)
    IN  [added_concepts   |-> sorted_int(b_ids \ a_ids),
         removed_concepts |-> sorted_int(a_ids \ b_ids),
         changed_concepts |-> sorted_int({cid \in a_ids \cap b_ids :
                                 dict_get(a._concepts, cid) # dict_get(b._concepts, cid)}),
         added_groups     |-> sorted_str(b_g \ a_g),
         removed_groups   |-> sorted_str(a_g \ b_g),
         changed_groups   |-> sorted_str({g \in a_g \cap b_g :
                                 dict_get(a._groups, g) # dict_get(b._groups, g)})]

diff(R, other_) ==
    [self |-> R, other |-> other_, out |-> Return(from_registries(R, other_))]

----------------------------------------------------------------------------
(* Inputs.                                                                 *)

ConceptIds == 1..MaxId

\* label of concept i: "a", "b", ... and, as a second spelling, "A", "B", ...
label_of(i) == <<96 + i>>
Label_of(i) == <<64 + i>>

\* tuples of concept identifiers used as parents and as group members:
\* (), (i,) and (i, j) with i < j
RefTuples ==
    {<<>>} \cup {<<i>> : i \in ConceptIds}
           \cup {t \in ConceptIds \X ConceptIds : t[1] < t[2]}

\* all concatenations s1 \o ... \o sn with sk \in opt[k]
RECURSIVE Concat(_, _)
Concat(opt, n) ==
    IF n = 0 THEN {<<>>}
    ELSE {s \o o : s \in Concat(opt, n - 1), o \in opt[n]}

Flags == [strict_roles : BOOLEAN, strict_parents : BOOLEAN,
          strict_group_members : BOOLEAN, strict_schema_classes : BOOLEAN]

----------------------------------------------------------------------------
(* Validation of constructed registries.                                   *)

\* concept i: role "x" without parents or with one parent, or role "y"
ValidateConcepts(i) ==
    {ConceptRecord(i, label_of(i), "x", p, None, None) :
        p \in {t \in RefTuples : Len(t) <= 1}}
    \cup {ConceptRecord(i, label_of(i), "y", <<>>, None, None)}

ValidateConceptInputs ==
    Concat([i \in ConceptIds |->
               {<<>>} \cup {<<c>> : c \in ValidateConcepts(i)}], MaxId)

\* no group, or one group "G"
ValidateGroupInputs ==
    {<<>>} \cup {<<ConceptGroupRecord(<<71>>, r, m, None, None, FALSE)>> :
                    r \in {"x", "y"}, m \in RefTuples}

ValidateSchemas ==
    {None,
     Some(SchemaInfo({"x"}, {"OmopConcept"})),
     Some(SchemaInfo({"x"}, RequiredClasses))}

InitValidate ==
    /\ self \in {ConceptRegistry(cs, gs, s) :
                    cs \in ValidateConceptInputs, gs \in ValidateGroupInputs,
                    s \in ValidateSchemas}
    /\ other = ConceptRegistry(<<>>, <<>>, None)
    /\ op = "__init__"
    /\ arg = None
    /\ result = None
    /\ NoRuntime

Validate ==
    \E f \in Flags :
        LET call == validate(self, f.strict_roles, f.strict_parents,
                             f.strict_group_members, f.strict_schema_classes)
        IN  /\ self' = call.self
            /\ op' = "validate"
            /\ arg' = f
            /\ result' = call.out
            /\ UNCHANGED <<other, rtvars>>

AncestorsOf ==
    \E x \in ConceptIds :
        LET call == ancestors_of(self, x)
        IN  /\ self' = call.self
            /\ op' = "ancestors_of"
            /\ arg' = [concept_id |-> x]
            /\ result' = call.out
            /\ UNCHANGED <<other, rtvars>>

NextValidate == Validate \/ AncestorsOf

SpecValidate == InitValidate /\ [][NextValidate]_vars

----------------------------------------------------------------------------
(* The parent graph of a registry, for stating the properties.             *)

AllConcepts(R) == Range(dict_values(R._concepts))
AllGroups(R) == Range(dict_values(R._groups))

ParentsOf(R, x) ==
    UNION {Range(c.parents) : c \in {d \in AllConcepts(R) : d.concept_id = x}}

\* least set containing S and closed under ParentsOf
RECURSIVE Saturate(_, _)
Saturate(R, S) ==
    LET T == S \cup UNION {ParentsOf(R, y) : y \in S}
    IN  IF T = S THEN S ELSE Saturate(R, T)

TransitiveParents(R, x) == Saturate(R, ParentsOf(R, x))

OnParentCycle(R, x) == x \in TransitiveParents(R, x)
HasParentCycle(R) == \E c \in AllConcepts(R) : OnParentCycle(R, c.concept_id)

DanglingParent(R) ==
    \E c \in AllConcepts(R) : \E p \in Range(c.parents) :
        \A d \in AllConcepts(R) : d.concept_id # p
DanglingMember(R) ==
    \E g \in AllGroups(R) : \E m \in Range(g.members) :
        \A d \in AllConcepts(R) : d.concept_id # m

DeclaredRoles(R) ==
    IF R._schema = None THEN {} ELSE {rd.name : rd \in Range(R._schema[1].roles)}
UndeclaredRole(R) ==
    \/ \E c \in AllConcepts(R) : c.role \notin DeclaredRoles(R)
    \/ \E g \in AllGroups(R) : g.role \notin DeclaredRoles(R)
MissingSchemaClass(R) ==
    /\ R._schema # None
    /\ ~({"OmopConcept", "ConceptGroup"} \subseteq R._schema[1].classes)

AllStrict(f) ==
    /\ f.strict_roles /\ f.strict_parents
    /\ f.strict_group_members /\ f.strict_schema_classes

\* the concept/group input is valid in the sense of the specification
ValidInput(R) ==
    /\ ~HasParentCycle(R)
    /\ ~DanglingParent(R)
    /\ ~DanglingMember(R)
    /\ (R._schema # None => ~UndeclaredRole(R))

----------------------------------------------------------------------------
(* Properties of validate, checked under SpecValidate.                     *)

\* C2: for a registry whose concepts contain a directed cycle through their
\* parents edges, validate(strict_parents=True) signals a validation error.
C2_CycleIsRejected ==
    (op = "validate" /\ arg.strict_parents /\ HasParentCycle(self))
        => result.kind = "raise"

\* C10: for a registry with an acyclic parent graph and a concept x,
\* ancestors_of(x) is the parents of x together with the ancestors of every
\* parent of x (the transitive closure over parents edges).
C10_AncestorsAreTheClosure ==
    (op = "ancestors_of" /\ ~HasParentCycle(self) /\ has(self, arg.concept_id))
        => /\ result.kind = "return"
           /\ Range(result.value) =
                 ParentsOf(self, arg.concept_id)
                 \cup UNION {TransitiveParents(self, p) :
                                p \in ParentsOf(self, arg.concept_id)}

\* C7 as stated: for every registry whose concept/group input is valid
\* (cycle-free, fully referenced, every role declared), validate() with all
\* strict flags enabled succeeds.
C7_ValidInputPasses ==
    (op = "validate" /\ AllStrict(arg) /\ ValidInput(self))
        => result = Return(None)

\* C7 as amended: for every registry whose concept/group input is valid and
\* whose schema, when there is one, declares the classes OmopConcept and
\* ConceptGroup, validate() with all strict flags enabled succeeds.
C7_ValidInputAndSchemaPasses ==
    (op = "validate" /\ AllStrict(arg) /\ ValidInput(self)
        /\ ~MissingSchemaClass(self))
        => result = Return(None)

C7_Witness ==
    /\ op = "validate" /\ AllStrict(arg) /\ ValidInput(self)
    /\ self._schema # None /\ ~MissingSchemaClass(self)
    /\ \E c \in AllConcepts(self) : c.parents # <<>>
    /\ \E g \in AllGroups(self) : Len(g.members) = 2
    /\ result = Return(None)

\* C8: on a registry with no schema, validate(strict_parents=p,
\* strict_group_members=m) signals a validation error if and only if (p and
\* some concept lists a parent that is not a concept of the registry) or (m
\* and some group lists a member that is not a concept of the registry); and
\* validate leaves the registry as it was.
C8_ReferentialChecksExact ==
    /\ [](  (op = "validate" /\ self._schema = None)
            => (   (result.kind = "raise" /\ result.exc = "ValueError")
               <=> \/ arg.strict_parents /\ DanglingParent(self)
                   \/ arg.strict_group_members /\ DanglingMember(self)))
    /\ [][op' = "validate" => self' = self]_vars

C8_Witness ==
    /\ op = "validate" /\ self._schema = None
    /\ ~arg.strict_parents /\ arg.strict_group_members
    /\ DanglingParent(self) /\ DanglingMember(self)
    /\ result.kind = "raise" /\ result.ctx.check = "group_member"

\* C9: when a schema is loaded, validate(strict_roles=True) signals a
\* validation error whenever some concept or some group has a role outside
\* the schema's declared roles; with strict_roles=False validate fails only
\* for a reason that is not a role (a missing schema class, a missing parent
\* or a missing group member, each with its check enabled).
C9_StrictRoles ==
    op = "validate" =>
        /\ (arg.strict_roles /\ self._schema # None /\ UndeclaredRole(self))
              => (result.kind = "raise" /\ result.exc = "ValueError")
        /\ (~arg.strict_roles /\ result.kind = "raise")
              => \/ arg.strict_schema_classes /\ MissingSchemaClass(self)
                 \/ arg.strict_parents /\ DanglingParent(self)
                 \/ arg.strict_group_members /\ DanglingMember(self)

C9_Witness ==
    /\ op = "validate" /\ arg.strict_roles /\ ~arg.strict_schema_classes
    /\ self._schema # None
    /\ \A c \in AllConcepts(self) : c.role \in DeclaredRoles(self)
    /\ \E g \in AllGroups(self) : g.role \notin DeclaredRoles(self)
    /\ AllConcepts(self) # {}
    /\ result.kind = "raise" /\ result.ctx.check = "group_role"

----------------------------------------------------------------------------
(* Merge and diff of two constructed registries.                           *)

Strategies == {"prefer_self", "prefer_other", "error"}

\* concept i under one of two labels ("a" or "A", ...)
MergeConcepts(i) ==
    {ConceptRecord(i, l, "x", <<>>, None, None) : l \in {label_of(i), Label_of(i)}}

MergeConceptInputs ==
    Concat([i \in ConceptIds |->
               {<<>>} \cup {<<c>> : c \in MergeConcepts(i)}], MaxId)

\* groups "G" and "g" (one lowercase name, different records)
MergeGroups ==
    {<<>>,
     <<ConceptGroupRecord(<<71>>, "x", <<>>, None, None, FALSE)>>,
     <<ConceptGroupRecord(<<103>>, "x", <<1>>, None, None, FALSE)>>}

\* the receiver may also hold a group "H" and may have no schema
MergeRegistries ==
    {ConceptRegistry(cs, g \o h, s) :
        cs \in MergeConceptInputs,
        g \in MergeGroups,
        h \in {<<>>, <<ConceptGroupRecord(<<72>>, "x", <<>>, None, None, FALSE)>>},
        s \in {None, Some(SchemaInfo({"x"}, RequiredClasses))}}

MergeOthers ==
    {ConceptRegistry(cs, g, Some(SchemaInfo({"x"}, RequiredClasses))) :
        cs \in MergeConceptInputs, g \in MergeGroups}

InitMerge ==
    /\ self \in MergeRegistries
    /\ other \in MergeOthers
    /\ op = "__init__"
    /\ arg = None
    /\ result = None
    /\ NoRuntime

Merge ==
    \E strategy \in Strategies :
        LET call == merge(self, other, strategy)
        IN  /\ self' = call.self
            /\ other' = call.other
            /\ UNCHANGED rtvars
            /\ op' = "merge"
            /\ arg' = [strategy |-> strategy]
            /\ result' = call.out

Diff ==
    LET call == diff(self, other)
    IN  /\ self' = call.self
        /\ other' = call.other
        /\ UNCHANGED rtvars
        /\ op' = "diff"
        /\ arg' = None
        /\ result' = call.out

NextMerge == Merge \/ Diff

SpecMerge == InitMerge /\ [][NextMerge]_vars

----------------------------------------------------------------------------
(* Properties of merge and diff, checked under SpecMerge.                  *)

ConceptIdsOf(R) == {c.concept_id : c \in AllConcepts(R)}
GroupKeysOf(R) == {lower(g.name) : g \in AllGroups(R)}
ConceptAt(R, i) == CHOOSE c \in AllConcepts(R) : c.concept_id = i
GroupAt(R, key) == CHOOSE g \in AllGroups(R) : lower(g.name) = key

ConceptConflict(a, b) ==
    \E i \in ConceptIdsOf(a) \cap ConceptIdsOf(b) : ConceptAt(a, i) # ConceptAt(b, i)
GroupConflict(a, b) ==
    \E key \in GroupKeysOf(a) \cap GroupKeysOf(b) : GroupAt(a, key) # GroupAt(b, key)

\* C3: merge(other, strategy='error') signals a conflict error whenever some
\* concept identifier or some lowercase group name is present in both
\* registries with unequal values, and returns a registry when there is none.
C3_ErrorStrategy ==
    (op = "merge" /\ arg.strategy = "error") =>
        IF ConceptConflict(self, other) \/ GroupConflict(self, other)
        THEN result.kind = "raise" /\ result.exc = "ValueError"
        ELSE result.kind = "return"
             /\ ConceptIdsOf(result.value) = ConceptIdsOf(self) \cup ConceptIdsOf(other)

C3_Witness ==
    /\ op = "merge" /\ arg.strategy = "error"
    /\ ~ConceptConflict(self, other) /\ GroupConflict(self, other)
    /\ ConceptIdsOf(self) \cap ConceptIdsOf(other) # {}
    /\ result.kind = "raise"

\* what a merge that prefers registry a over registry b must hold
MergedPreferring(M, a, b) ==
    /\ ConceptIdsOf(M) = ConceptIdsOf(a) \cup ConceptIdsOf(b)
    /\ Len(M._concepts) = Cardinality(ConceptIdsOf(M))
    /\ \A i \in ConceptIdsOf(M) :
          get(M, i) = Return(IF i \in ConceptIdsOf(a) THEN ConceptAt(a, i)
                                                     ELSE ConceptAt(b, i))
    /\ GroupKeysOf(M) = GroupKeysOf(a) \cup GroupKeysOf(b)
    /\ Len(M._groups) = Cardinality(GroupKeysOf(M))
    /\ \A key \in GroupKeysOf(M) :
          GroupAt(M, key) = IF key \in GroupKeysOf(a) THEN GroupAt(a, key)
                                                      ELSE GroupAt(b, key)

\* C4: merge with prefer_self (prefer_other) returns exactly the union of
\* both registries' concept identifiers and lowercase group names; a key of
\* one operand keeps its value and a key of both has self's (other's) value.
C4_PreferStrategies ==
    /\ (op = "merge" /\ arg.strategy = "prefer_self") =>
          (result.kind = "return" /\ MergedPreferring(result.value, self, other))
    /\ (op = "merge" /\ arg.strategy = "prefer_other") =>
          (result.kind = "return" /\ MergedPreferring(result.value, other, self))

C4_Witness ==
    /\ op = "merge" /\ arg.strategy = "prefer_self"
    /\ ConceptConflict(self, other) /\ GroupConflict(self, other)
    /\ ConceptIdsOf(other) \ ConceptIdsOf(self) # {}
    /\ GroupKeysOf(self) \ GroupKeysOf(other) # {}
    /\ result.kind = "return"

DiffIsEmpty(d) ==
    /\ d.added_concepts = <<>> /\ d.removed_concepts = <<>> /\ d.changed_concepts = <<>>
    /\ d.added_groups = <<>> /\ d.removed_groups = <<>> /\ d.changed_groups = <<>>

\* C5: R.diff(R) has empty added, removed and changed sets for concepts and
\* for groups.
C5_DiffWithItself ==
    (op = "diff" /\ other = self) => (result.kind = "return" /\ DiffIsEmpty(result.value))

C5_Witness ==
    /\ op = "diff" /\ other = self
    /\ Len(self._concepts) = MaxId /\ Len(self._groups) = 1
    /\ DiffIsEmpty(result.value)

\* C6: a.diff(b) reports as added exactly the concept identifiers (lowercase
\* group names) of b that are not in a, as removed those of a not in b, as
\* changed those of both whose records are unequal; the three sets are
\* pairwise disjoint and neither registry is modified.
C6_DiffIsExact ==
    /\ [](op = "diff" =>
            LET d == result.value
                ac == Range(d.added_concepts)
                rc == Range(d.removed_concepts)
                cc == Range(d.changed_concepts)
                ag == Range(d.added_groups)
                rg == Range(d.removed_groups)
                cg == Range(d.changed_groups)
            IN  /\ result.kind = "return"
                /\ ac = ConceptIdsOf(other) \ ConceptIdsOf(self)
                /\ rc = ConceptIdsOf(self) \ ConceptIdsOf(other)
                /\ cc = {i \in ConceptIdsOf(self) \cap ConceptIdsOf(other) :
                            ConceptAt(self, i) # ConceptAt(other, i)}
                /\ ag = GroupKeysOf(other) \ GroupKeysOf(self)
                /\ rg = GroupKeysOf(self) \ GroupKeysOf(other)
                /\ cg = {key \in GroupKeysOf(self) \cap GroupKeysOf(other) :
                            GroupAt(self, key) # GroupAt(other, key)}
                /\ ac \cap rc = {} /\ ac \cap cc = {} /\ rc \cap cc = {}
                /\ ag \cap rg = {} /\ ag \cap cg = {} /\ rg \cap cg = {})
    /\ [][op' = "diff" => (self' = self /\ other' = other)]_vars

C6_Witness ==
    /\ op = "diff"
    /\ result.value.added_concepts # <<>> /\ result.value.changed_concepts # <<>>
    /\ result.value.removed_groups # <<>> /\ result.value.changed_groups # <<>>

----------------------------------------------------------------------------
(* A caller evolving one registry through the copy-on-write builders.      *)

\* one record per concept, and a second record for concept 1 ("A", role y)
BuilderConcepts ==
    {ConceptRecord(i, label_of(i), "x", <<>>, None, None) : i \in ConceptIds}
    \cup {ConceptRecord(1, Label_of(1), "y", <<>>, None, None)}

\* nothing, or two records with one identifier
BuilderConceptInputs ==
    {<<>>,
     <<ConceptRecord(1, label_of(1), "x", <<>>, None, None),
       ConceptRecord(1, Label_of(1), "y", <<>>, None, None)>>}

\* nothing, or two groups with one lowercase name
BuilderGroupInputs ==
    {<<>>,
     <<ConceptGroupRecord(<<71>>, "x", <<1>>, None, None, FALSE),
       ConceptGroupRecord(<<103>>, "z", <<MaxId, MaxId + 1>>, None, None, TRUE)>>}

BuilderSchemas == {None, Some(SchemaInfo({"x", "y"}, RequiredClasses))}

\* keyword arguments of with_updated_concept: a field, no field of the
\* record, and the name of the positional parameter
BuilderChanges == {[role |-> "x"], [rank |-> 1], [concept_id |-> MaxId]}

\* the registry passed to merge and diff
BuilderOther ==
    ConceptRegistry(
        <<ConceptRecord(1, Label_of(1), "y", <<>>, None, None)>>,
        <<ConceptGroupRecord(<<71>>, "y", <<>>, None, None, FALSE)>>,
        None)

Init ==
    /\ self = ConceptRegistry(<<>>, <<>>, None)
    /\ other = BuilderOther
    /\ op = "__init__"
    /\ arg = None
    /\ result = None
    /\ NoRuntime

WithConcepts ==
    \E cs \in BuilderConceptInputs :
        LET call == with_concepts(self, cs)
        IN  /\ self' = call.self
            /\ op' = "with_concepts"
            /\ arg' = [concepts |-> cs]
            /\ result' = call.out
            /\ UNCHANGED <<other, rtvars>>

WithGroups ==
    \E gs \in BuilderGroupInputs :
        LET call == with_groups(self, gs)
        IN  /\ self' = call.self
            /\ op' = "with_groups"
            /\ arg' = [groups |-> gs]
            /\ result' = call.out
            /\ UNCHANGED <<other, rtvars>>

WithSchema ==
    \E s \in BuilderSchemas :
        LET call == with_schema(self, s)
        IN  /\ self' = call.self
            /\ op' = "with_schema"
            /\ arg' = [schema |-> s]
            /\ result' = call.out
            /\ UNCHANGED <<other, rtvars>>

WithAddedConcept ==
    \E c \in BuilderConcepts :
        LET call == with_added_concept(self, c)
        IN  /\ self' = call.self
            /\ op' = "with_added_concept"
            /\ arg' = [concept |-> c]
            /\ result' = call.out
            /\ UNCHANGED <<other, rtvars>>

WithUpdatedConcept ==
    \E i \in ConceptIds, ch \in BuilderChanges :
        LET call == with_updated_concept(self, i, ch)
        IN  /\ self' = call.self
            /\ op' = "with_updated_concept"
            /\ arg' = [concept_id |-> i, changes |-> ch]
            /\ result' = call.out
            /\ UNCHANGED <<other, rtvars>>

\* validate() with the default flags
ValidateDefaults ==
    LET call == validate(self, TRUE, TRUE, TRUE, FALSE)
    IN  /\ self' = call.self
        /\ op' = "validate"
        /\ arg' = [strict_roles |-> TRUE, strict_parents |-> TRUE,
                   strict_group_members |-> TRUE, strict_schema_classes |-> FALSE]
        /\ result' = call.out
        /\ UNCHANGED <<other, rtvars>>

Builders ==
    {"with_concepts", "with_groups", "with_schema", "with_added_concept",
     "with_updated_concept", "merge"}

\* r = r.with_...(...): the caller goes on with the registry it was given
Rebind ==
    /\ op \in Builders
    /\ result.kind = "return"
    /\ self' = result.value
    /\ op' = "rebind"
    /\ arg' = None
    /\ result' = None
    /\ UNCHANGED <<other, rtvars>>

Next ==
    \/ WithConcepts \/ WithGroups \/ WithSchema
    \/ WithAddedConcept \/ WithUpdatedConcept
    \/ Merge \/ Diff \/ ValidateDefaults
    \/ Rebind

Spec == Init /\ [][Next]_vars

----------------------------------------------------------------------------
(* Properties of the builders, checked under Spec.                         *)

ProbeRoles == {"x", "y", "z", "unknown"}

\* what a caller can read from a registry
View(R) ==
    [get |-> [i \in ConceptIds |-> get(R, i)],
     has |-> [i \in ConceptIds |-> has(R, i)],
     by_role |-> [r \in ProbeRoles |-> by_role(R, r).out.value],
     concepts |-> concepts(R),
     groups |-> groups(R),
     schema |-> schema(R)]

\* C1: no call of with_concepts, with_groups, with_schema, with_added_concept,
\* with_updated_concept, merge, diff or validate on R, whether it succeeds
\* or fails, changes what R.get, R.has, R.by_role, R.groups and R.schema
\* give (nor the argument of merge and diff); after R.with_added_concept(c)
\* the returned registry holds c and R is as before.
C1_BuildersLeaveReceiver ==
    [][ /\ op' # "rebind" => (View(self') = View(self) /\ self' = self
                              /\ other' = other)
        /\ op' = "with_added_concept" =>
              /\ result'.kind = "return"
              /\ get(result'.value, arg'.concept.concept_id) = Return(arg'.concept)
              /\ get(self', arg'.concept.concept_id) = get(self, arg'.concept.concept_id)
      ]_vars

C1_Witness ==
    /\ op = "with_added_concept"
    /\ Len(self._concepts) = 1
    /\ ~has(self, arg.concept.concept_id)
    /\ has(result.value, arg.concept.concept_id)
    /\ Len(result.value._concepts) = 2

----------------------------------------------------------------------------
(* A caller constructing one registry and querying it.                     *)

QueryIds == 1 .. (MaxId + 1)

\* the identifier after i, going round
next_id(i) == (i % (MaxId + 1)) + 1

\* Candidate records, in the order a caller lists them: for every identifier
\* i an "unknown" placeholder labelled label_of(i), then a record of role x
\* with the same identifier whose label is that of the placeholder two
\* identifiers on, in upper case.
QueryCandidates ==
    [k \in 1 .. 2 * (MaxId + 1) |->
        LET i == (k + 1) \div 2
        IN  IF k % 2 = 1
            THEN ConceptRecord(i, label_of(i), "unknown", <<>>, None, None)
            ELSE ConceptRecord(i, Label_of(next_id(next_id(i))), "x",
                               <<>>, None, None)]

\* the candidates at the positions S, in their order
Pick(S) == LET at == sorted_int(S) IN [k \in DOMAIN at |-> QueryCandidates[at[k]]]

QueryConceptInputs == {Pick(S) : S \in SUBSET DOMAIN QueryCandidates}

QueryGroupInputs ==
    {<<>>, <<ConceptGroupRecord(<<71>>, "x", <<1, MaxId + 2>>, None, None, FALSE)>>}

QuerySchemas == {None, Some(SchemaInfo({"x", "y"}, RequiredClasses))}

InitQuery ==
    \E cs \in QueryConceptInputs, gs \in QueryGroupInputs, sc \in QuerySchemas :
        /\ self = ConceptRegistry(cs, gs, sc)
        /\ other = ConceptRegistry(<<>>, <<>>, None)
        /\ op = "__init__"
        /\ arg = [concepts |-> cs, groups |-> gs, schema |-> sc]
        /\ result = None
        /\ NoRuntime

\* arguments of the queries: identifiers, roles, labels and group names the
\* registry has and ones it has not
ProbeIds == {1, MaxId + 1, MaxId + 2}
QueryRoles == {"unknown", "x", "z"}
QueryLabels == {Label_of(2), label_of(MaxId + 1), label_of(MaxId + 2)}
QueryGroupNames == {<<71>>, <<103>>}

Get ==
    \E i \in QueryIds \cup ProbeIds :
        /\ self' = self
        /\ op' = "get"
        /\ arg' = [concept_id |-> i]
        /\ result' = get(self, i)
        /\ UNCHANGED <<other, rtvars>>

TryGet ==
    \E i \in QueryIds \cup ProbeIds :
        /\ self' = self
        /\ op' = "try_get"
        /\ arg' = [concept_id |-> i]
        /\ result' = Return(try_get(self, i))
        /\ UNCHANGED <<other, rtvars>>

ByRole ==
    \E r \in QueryRoles :
        LET call == by_role(self, r)
        IN  /\ self' = call.self
            /\ op' = "by_role"
            /\ arg' = [role |-> r]
            /\ result' = call.out
            /\ UNCHANGED <<other, rtvars>>

IsRole ==
    \E i \in ProbeIds, r \in QueryRoles :
        LET call == is_role(self, i, r)
        IN  /\ self' = call.self
            /\ op' = "is_role"
            /\ arg' = [concept_id |-> i, role |-> r]
            /\ result' = call.out
            /\ UNCHANGED <<other, rtvars>>

Unknowns ==
    LET call == unknowns(self)
    IN  /\ self' = call.self
        /\ op' = "unknowns"
        /\ arg' = None
        /\ result' = call.out
        /\ UNCHANGED <<other, rtvars>>

IsUnknown ==
    \E i \in {None} \cup {Some(j) : j \in ProbeIds} :
        LET call == is_unknown(self, i)
        IN  /\ self' = call.self
            /\ op' = "is_unknown"
            /\ arg' = [concept_id |-> i]
            /\ result' = call.out
            /\ UNCHANGED <<other, rtvars>>

DefaultUnknown ==
    \E hint \in QueryLabels :
        LET call == default_unknown(self, hint)
        IN  /\ self' = call.self
            /\ op' = "default_unknown"
            /\ arg' = [label_hint |-> hint]
            /\ result' = call.out
            /\ UNCHANGED <<other, rtvars>>

GroupsFor ==
    \E i \in ProbeIds :
        LET call == groups_for(self, i)
        IN  /\ self' = call.self
            /\ op' = "groups_for"
            /\ arg' = [concept_id |-> i]
            /\ result' = call.out
            /\ UNCHANGED <<other, rtvars>>

InGroup ==
    \E i \in ProbeIds, g \in QueryGroupNames :
        LET call == in_group(self, i, g)
        IN  /\ self' = call.self
            /\ op' = "in_group"
            /\ arg' = [concept_id |-> i, group |-> g]
            /\ result' = call.out
            /\ UNCHANGED <<other, rtvars>>

GroupsByRole ==
    \E r \in QueryRoles :
        LET call == groups_by_role(self, r)
        IN  /\ self' = call.self
            /\ op' = "groups_by_role"
            /\ arg' = [role |-> r]
            /\ result' = call.out
            /\ UNCHANGED <<other, rtvars>>

TryByLabel ==
    \E l \in QueryLabels :
        LET call == try_by_label(self, l)
        IN  /\ self' = call.self
            /\ op' = "try_by_label"
            /\ arg' = [label |-> l]
            /\ result' = call.out
            /\ UNCHANGED <<other, rtvars>>

Summary ==
    LET call == summary(self)
    IN  /\ self' = call.self
        /\ op' = "summary"
        /\ arg' = None
        /\ result' = call.out
        /\ UNCHANGED <<other, rtvars>>

Roles ==
    LET call == roles(self)
    IN  /\ self' = call.self
        /\ op' = "roles"
        /\ arg' = None
        /\ result' = call.out
        /\ UNCHANGED <<other, rtvars>>

NextQuery ==
    \/ Get \/ TryGet \/ ByRole \/ IsRole \/ Unknowns \/ IsUnknown
    \/ DefaultUnknown \/ GroupsFor \/ InGroup \/ GroupsByRole \/ TryByLabel
    \/ Summary \/ Roles

SpecQuery == InitQuery /\ [][NextQuery]_vars

----------------------------------------------------------------------------
(* Properties of the queries, checked under SpecQuery.                     *)

\* the concepts of R that carry the role "unknown"
UnknownConcepts(R) == {c \in AllConcepts(R) : c.role = "unknown"}

\* those of them whose label equals the hint, case-insensitively
UnknownLabelled(R, hint) ==
    {c \in UnknownConcepts(R) : lower(c.label) = lower(hint)}

\* C11: default_unknown(label_hint) returns the identifier of a concept of
\* role "unknown" whose label equals label_hint case-insensitively if there
\* is one, otherwise the smallest identifier among the concepts of role
\* "unknown"; it raises KeyError if and only if no concept has role
\* "unknown".
C11_DefaultUnknown ==
    op = "default_unknown" =>
        LET unk == UnknownConcepts(self)
            hit == UnknownLabelled(self, arg.label_hint)
        IN  /\ (result.kind = "raise") <=> (unk = {})
            /\ result.kind = "raise" => result.exc = "KeyError"
            /\ hit # {} =>
                  /\ result.kind = "return"
                  /\ \E c \in hit : result.value = c.concept_id
            /\ (hit = {} /\ unk # {}) =>
                  /\ result.kind = "return"
                  /\ result.value = Min({c.concept_id : c \in unk})

\* the identifiers of the records cs, and the last record of cs with
\* identifier i
IdsIn(cs) == {cs[k].concept_id : k \in DOMAIN cs}
LastWithId(cs, i) ==
    cs[CHOOSE k \in DOMAIN cs :
          /\ cs[k].concept_id = i
          /\ \A m \in DOMAIN cs : cs[m].concept_id = i => m <= k]

\* C12: a registry constructed from records of which several share one
\* identifier is built without error; get(id) returns the last record with
\* that identifier in input order and summary() counts each identifier once.
C12_LastRecordWins ==
    op = "__init__" =>
        /\ \A i \in IdsIn(arg.concepts) :
              get(self, i) = Return(LastWithId(arg.concepts, i))
        /\ summary(self).out.kind = "return"
        /\ summary(self).out.value.concepts = Cardinality(IdsIn(arg.concepts))

C12_Witness ==
    /\ op = "__init__"
    /\ \E k, m \in DOMAIN arg.concepts :
          /\ k < m
          /\ arg.concepts[k].concept_id = arg.concepts[m].concept_id
          /\ arg.concepts[k] # arg.concepts[m]
          /\ get(self, arg.concepts[m].concept_id) = Return(arg.concepts[m])
    /\ summary(self).out.value.concepts < Len(arg.concepts)

\* C13: get and try_get return the concept registered under the identifier
\* when there is one; otherwise get raises KeyError and try_get returns None
\* without raising.
C13_GetAndTryGet ==
    /\ op = "get" =>
          IF \E c \in AllConcepts(self) : c.concept_id = arg.concept_id
          THEN /\ result.kind = "return"
               /\ result.value \in AllConcepts(self)
               /\ result.value.concept_id = arg.concept_id
          ELSE result.kind = "raise" /\ result.exc = "KeyError"
    /\ op = "try_get" =>
          /\ result.kind = "return"
          /\ IF \E c \in AllConcepts(self) : c.concept_id = arg.concept_id
             THEN /\ result.value # None
                  /\ result.value[1] \in AllConcepts(self)
                  /\ result.value[1].concept_id = arg.concept_id
             ELSE result.value = None

C13_Witness ==
    /\ op = "try_get"
    /\ AllConcepts(self) # {}
    /\ \A c \in AllConcepts(self) : c.concept_id # arg.concept_id
    /\ result = Return(None)

\* the queries C14 is about
ReadOnlyQueries ==
    {"by_role", "is_role", "unknowns", "is_unknown", "groups_for", "in_group",
     "groups_by_role", "try_get", "try_by_label"}

\* what summary(), roles() and the queries give on R
Observe(R) ==
    [summary |-> summary(R).out,
     roles |-> roles(R).out,
     by_role |-> [r \in QueryRoles |-> by_role(R, r).out],
     is_role |-> [i \in ProbeIds, r \in QueryRoles |-> is_role(R, i, r).out],
     unknowns |-> unknowns(R).out,
     is_unknown |-> [i \in ProbeIds |-> is_unknown(R, Some(i)).out],
     groups_for |-> [i \in ProbeIds |-> groups_for(R, i).out],
     in_group |-> [i \in ProbeIds, g \in QueryGroupNames |-> in_group(R, i, g).out],
     groups_by_role |-> [r \in QueryRoles |-> groups_by_role(R, r).out],
     try_get |-> [i \in ProbeIds |-> try_get(R, i)],
     try_by_label |-> [l \in QueryLabels |-> try_by_label(R, l).out]]

\* no query changes the registry or what a later query gives
QueriesLeaveRegistry ==
    [][op' \in ReadOnlyQueries =>
          /\ self' = self
          /\ Observe(self') = Observe(self)
          /\ result'.kind = "return"]_vars

\* by_role of a role that no concept of the registry carries is the empty set
ByRoleOfUncarriedRole ==
    (op = "by_role" /\ \A c \in AllConcepts(self) : c.role # arg.role)
        => result = Return({})

\* C14: by_role with a role that no concept carries returns the empty set
\* without error, and no by_role, is_role, unknowns, is_unknown, groups_for,
\* in_group, groups_by_role, try_get or try_by_label call changes the result
\* of summary(), roles() or of any later query on the registry.
C14_QueriesAreSideEffectFree ==
    []ByRoleOfUncarriedRole /\ QueriesLeaveRegistry

----------------------------------------------------------------------------
(* Semantic objects (generated_models/omop_semantic_registry.py).  The     *)
(* models forbid extra fields, so an object has the fields listed here and *)
(* no others.  An optional field is None or Some(value).                   *)

Concept(concept_id, label) == [concept_id |-> concept_id, label |-> label]

OmopConcept(name, concept_id, label, notes) ==
    [class_uri |-> "OmopConcept", name |-> name, notes |-> notes,
     concept_id |-> concept_id, label |-> label]

OmopEnum(name, enum_members, notes) ==
    [class_uri |-> "OmopEnum", name |-> name, notes |-> notes,
     enum_members |-> enum_members]

OmopGroup(name, parent_concepts, notes) ==
    [class_uri |-> "OmopGroup", name |-> name, notes |-> notes,
     parent_concepts |-> parent_concepts]

OmopValueSet(name, members, notes) ==
    [class_uri |-> "OmopValueSet", name |-> name, notes |-> notes,
     members |-> members]

OmopCdmProfile(name, cdm_table, concept_slot, value_slot) ==
    [name |-> name, cdm_table |-> cdm_table, concept_slot |-> concept_slot,
     value_slot |-> value_slot]

OmopTemplate(name, role, entity_concept, value_concept, cdm_profile) ==
    [name |-> name, role |-> role, entity_concept |-> entity_concept,
     value_concept |-> value_concept, cdm_profile |-> cdm_profile,
     notes |-> None]

RegistryGroup(name, role, registry_members) ==
    [name |-> name, role |-> role, registry_members |-> registry_members,
     notes |-> None]

RegistryFragment(groups_) == [groups |-> groups_]

\* Every semantic object class fixes its class_uri to its own name; a value
\* that is no semantic object (here a bare Concept) has no class_uri.
isinstance(obj, cls) == "class_uri" \in DOMAIN obj /\ obj.class_uri = cls

type(obj) == IF "class_uri" \in DOMAIN obj THEN obj.class_uri ELSE "Concept"

----------------------------------------------------------------------------
(* OmopSemanticResolver.resolve and OmopTemplateRuntime.compile            *)

\* {c.concept_id for c in members if c.concept_id is not None}
concept_ids(members) ==
    {members[k].concept_id[1] :
        k \in {j \in DOMAIN members : members[j].concept_id # None}}

\* x or []
or_empty(x) == IF x = None THEN <<>> ELSE x[1]

\* resolve, were a group resolved to its first anchor alone
resolve_first_anchor(obj) ==
    IF isinstance(obj, "OmopConcept")
    THEN IF obj.concept_id = None
         THEN Raise("ValueError", obj.name)
         ELSE Return({obj.concept_id[1]})
    ELSE IF isinstance(obj, "OmopEnum")
    THEN Return(concept_ids(obj.enum_members))
    ELSE IF isinstance(obj, "OmopGroup")
    THEN LET anchors == or_empty(obj.parent_concepts)
         IN  Return(concept_ids(IF anchors = <<>> THEN <<>> ELSE <<anchors[1]>>))
    ELSE Raise("TypeError", type(obj))

\* resolve, were an object it cannot resolve given the empty set
resolve_lenient(obj) ==
    IF isinstance(obj, "OmopConcept")
    THEN Return(concept_ids(<<obj>>))
    ELSE IF isinstance(obj, "OmopEnum")
    THEN Return(concept_ids(obj.enum_members))
    ELSE IF isinstance(obj, "OmopGroup")
    THEN Return(concept_ids(or_empty(obj.parent_concepts)))
    ELSE Return({})

resolve(obj) ==
    IF isinstance(obj, "OmopConcept")
    THEN IF obj.concept_id = None
         THEN Raise("ValueError", obj.name)
         ELSE Return({obj.concept_id[1]})
    ELSE IF isinstance(obj, "OmopEnum")
    THEN Return(concept_ids(obj.enum_members))
    ELSE IF isinstance(obj, "OmopGroup")
    THEN Return(concept_ids(or_empty(obj.parent_concepts)))
    ELSE Raise("TypeError", type(obj))

\* compile, were a template without a value reference given the empty
\* value set in place of None
compile_value_empty(tpl) ==
    IF tpl.entity_concept = None
    THEN Raise("ValueError", tpl.name)
    ELSE LET entity_ids == resolve(tpl.entity_concept[1])
             value_ids == IF tpl.value_concept # None
                          THEN resolve(tpl.value_concept[1])
                          ELSE Return({})
         IN  IF entity_ids.kind = "raise" THEN entity_ids
             ELSE IF value_ids.kind = "raise" THEN value_ids
             ELSE Return([name |-> tpl.name,
                          role |-> tpl.role,
                          cdm_profile |-> tpl.cdm_profile,
                          entity_concept_ids |-> entity_ids.value,
                          value_concept_ids |-> Some(value_ids.value)])

compile(tpl) ==
    IF tpl.entity_concept = None
    THEN Raise("ValueError", tpl.name)
    ELSE LET entity_ids == resolve(tpl.entity_concept[1])
             value_ids == IF tpl.value_concept # None
                          THEN resolve(tpl.value_concept[1])
                          ELSE Return(None)
         IN  IF entity_ids.kind = "raise" THEN entity_ids
             ELSE IF value_ids.kind = "raise" THEN value_ids
             ELSE Return([name |-> tpl.name,
                          role |-> tpl.role,
                          cdm_profile |-> tpl.cdm_profile,
                          entity_concept_ids |-> entity_ids.value,
                          value_concept_ids |->
                              IF tpl.value_concept # None
                              THEN Some(value_ids.value) ELSE None])

----------------------------------------------------------------------------
(* A caller of the resolver and of the template compiler.                  *)

\* members of an enumeration, anchors of a group: with and without an id
Members ==
    {Concept(Some(i), None) : i \in ConceptIds} \cup {Concept(None, Some(<<97>>))}

\* lists of at most two of them
MemberLists ==
    {<<>>} \cup {<<m>> : m \in Members} \cup {<<m, n>> : m, n \in Members}

NotesInputs == {None, Some(<<110>>)}

\* objects of the three classes resolve handles
ResolvableObjects ==
    {OmopConcept("c", i, None, None) : i \in {None} \cup {Some(j) : j \in ConceptIds}}
    \cup {OmopEnum("e", ms, None) : ms \in MemberLists}
    \cup {OmopGroup("g", ps, n) :
            ps \in {None} \cup {Some(ms) : ms \in MemberLists}, n \in NotesInputs}

\* and values of other classes
SemanticObjects ==
    ResolvableObjects
    \cup {OmopValueSet("v", <<>>, None),
          OmopValueSet("v", <<OmopConcept("c", Some(1), None, None)>>, None),
          Concept(Some(1), None)}

Profiles ==
    {OmopCdmProfile("observation_simple", "observation", "observation_concept_id", None),
     OmopCdmProfile("measurement_value", "measurement", "measurement_concept_id",
                    Some("value_as_concept_id"))}

\* what a template may hold as its entity or value reference
References ==
    {None,
     Some(OmopConcept("c", Some(1), None, None)),
     Some(OmopConcept("c", None, None, None)),
     Some(OmopEnum("e", <<Concept(Some(MaxId), None), Concept(None, Some(<<97>>))>>, None)),
     Some(OmopGroup("g", Some(<<Concept(Some(1), None), Concept(Some(MaxId), None)>>), None)),
     Some(OmopGroup("g", None, None))}

Templates ==
    {OmopTemplate(n, r, e, v, p) :
        n \in {"t"}, r \in {"demographic", "staging"},
        e \in References, v \in References, p \in Profiles}

InitCompile ==
    /\ self = None
    /\ other = None
    /\ op = "__init__"
    /\ arg = None
    /\ result = None
    /\ NoRuntime

Resolve ==
    \E obj \in SemanticObjects :
        /\ op' = "resolve"
        /\ arg' = [obj |-> obj]
        /\ result' = resolve(obj)
        /\ UNCHANGED <<regvars, rtvars>>

Compile ==
    \E tpl \in Templates :
        /\ op' = "compile"
        /\ arg' = [tpl |-> tpl]
        /\ result' = compile(tpl)
        /\ UNCHANGED <<regvars, rtvars>>

NextCompile == Resolve \/ Compile

SpecCompile == InitCompile /\ [][NextCompile]_vars

----------------------------------------------------------------------------
(* Properties of resolve and compile, checked under SpecCompile.           *)

\* the identifiers carried by the concepts of a list
IdsOf(ms) == {i \in ConceptIds : \E k \in DOMAIN ms : ms[k].concept_id = Some(i)}

Resolvable == {"OmopConcept", "OmopEnum", "OmopGroup"}

\* C15: resolve gives {i} for a single concept with identifier i; for an
\* enumeration the identifiers of the members that have one, skipping the
\* others without error; for a group the identifiers of its anchor (parent)
\* concepts, whatever else the group holds, hence the empty set for a group
\* that declares no parent concepts.
C15_ResolveVariants ==
    op = "resolve" =>
        LET obj == arg.obj
        IN  /\ (type(obj) = "OmopConcept" /\ obj.concept_id # None) =>
                  result = Return({obj.concept_id[1]})
            /\ type(obj) = "OmopEnum" =>
                  result = Return(IdsOf(obj.enum_members))
            /\ type(obj) = "OmopGroup" =>
                  /\ obj.parent_concepts = None => result = Return({})
                  /\ obj.parent_concepts # None =>
                        result = Return(IdsOf(obj.parent_concepts[1]))
                  /\ \A g \in SemanticObjects :
                        (type(g) = "OmopGroup"
                         /\ g.parent_concepts = obj.parent_concepts)
                            => resolve(g) = result

C15_Witness ==
    /\ op = "resolve"
    /\ type(arg.obj) = "OmopGroup"
    /\ arg.obj.notes # None
    /\ arg.obj.parent_concepts # None
    /\ Len(arg.obj.parent_concepts[1]) = 2
    /\ \E k \in {1, 2} : arg.obj.parent_concepts[1][k].concept_id = None
    /\ result.kind = "return"
    /\ Cardinality(result.value) = 1

\* C16: resolve raises ValueError for a single concept without identifier
\* and TypeError for every object that is no single concept, enumeration or
\* group; in both cases it returns no identifier set.
C16_ResolveErrors ==
    op = "resolve" =>
        LET obj == arg.obj
        IN  /\ (type(obj) = "OmopConcept" /\ obj.concept_id = None) =>
                  (result.kind = "raise" /\ result.exc = "ValueError")
            /\ type(obj) \notin Resolvable =>
                  (result.kind = "raise" /\ result.exc = "TypeError")

C16_Witness ==
    /\ op = "resolve"
    /\ type(arg.obj) = "OmopValueSet"
    /\ arg.obj.members # <<>>
    /\ result.kind = "raise"

\* the compiled template compile returns for tpl when both references
\* resolve
Compiled(tpl) ==
    [name |-> tpl.name,
     role |-> tpl.role,
     cdm_profile |-> tpl.cdm_profile,
     entity_concept_ids |-> resolve(tpl.entity_concept[1]).value,
     value_concept_ids |->
         IF tpl.value_concept = None THEN None
         ELSE Some(resolve(tpl.value_concept[1]).value)]

\* C17: compile raises when the template has no entity reference; otherwise
\* it returns a compiled template with the template's name, role and
\* profile, the entity set resolve(entity reference), and the value set
\* resolve(value reference) when there is a value reference and None when
\* there is none.
C17_CompileReturns ==
    op = "compile" =>
        LET tpl == arg.tpl
        IN  IF tpl.entity_concept = None
            THEN result.kind = "raise"
            ELSE /\ result.kind = "return"
                 /\ result.value.name = tpl.name
                 /\ result.value.role = tpl.role
                 /\ result.value.cdm_profile = tpl.cdm_profile
                 /\ Return(result.value.entity_concept_ids)
                        = resolve(tpl.entity_concept[1])
                 /\ IF tpl.value_concept = None
                    THEN result.value.value_concept_ids = None
                    ELSE /\ result.value.value_concept_ids # None
                         /\ Return(result.value.value_concept_ids[1])
                                = resolve(tpl.value_concept[1])

\* a reference that is present and that resolve rejects
Unresolved(ref) == ref # None /\ resolve(ref[1]).kind = "raise"

\* C17, amended: compile raises when the template has no entity reference
\* or when resolve raises for its entity or its value reference (the
\* error of resolve reaches the caller); otherwise it returns the compiled
\* template described above.
C17_CompileReturnsOrPropagates ==
    op = "compile" =>
        IF arg.tpl.entity_concept = None
        THEN result.kind = "raise" /\ result.exc = "ValueError"
        ELSE IF Unresolved(arg.tpl.entity_concept)
        THEN result = resolve(arg.tpl.entity_concept[1])
        ELSE IF Unresolved(arg.tpl.value_concept)
        THEN result = resolve(arg.tpl.value_concept[1])
        ELSE result = Return(Compiled(arg.tpl))

C17_Witness ==
    /\ op = "compile"
    /\ arg.tpl.entity_concept # None
    /\ type(arg.tpl.entity_concept[1]) = "OmopGroup"
    /\ arg.tpl.value_concept = None
    /\ result.kind = "return"
    /\ result.value.entity_concept_ids = {1, MaxId}
    /\ result.value.value_concept_ids = None

----------------------------------------------------------------------------
(* OmopRegistryRuntime.  A call gives [self |-> the runtime after the      *)
(* call, calls |-> the compile calls made so far, out |-> Return or        *)
(* Raise].  A compiled template is a dict object: object(id, value) pairs  *)
(* its value with its identity, the number of the compile call that made   *)
(* it.  The methods get and by_role are named rt_get and rt_by_role here,  *)
(* get and by_role being the methods of ConceptRegistry.                   *)

OmopRegistryRuntime(fragment) ==
    [fragment |-> fragment, _compiled_by_name |-> None, _compiled_by_role |-> None]

object(id, value) == [id |-> id, value |-> value]

\* for group in self.fragment.groups or []: for tpl in group.registry_members or []
RECURSIVE iter_groups(_, _)
iter_groups(groups_, i) ==
    IF i > Len(groups_) THEN <<>>
    ELSE or_empty(groups_[i].registry_members) \o iter_groups(groups_, i + 1)

\* role : Optional[str]
iter_templates(R, role) ==
    SelectSeq(iter_groups(or_empty(R.fragment.groups), 1),
              LAMBDA tpl : role = None \/ tpl.role = role[1])

\* the loop of compile_index (lines 255-258) from template i on; the
\* templates are numbered as iter_templates yields them
RECURSIVE compile_loop(_, _, _)
compile_loop(tpls, i, acc) ==
    IF i > Len(tpls) THEN acc
    ELSE LET tpl == tpls[i]
             c == compile(tpl)
             made == Append(acc.calls, i)
         IN  IF c.kind = "raise"
             THEN [acc EXCEPT !.calls = made, !.out = c]
             ELSE LET o == object(Len(made), c.value)
                  IN  compile_loop(tpls, i + 1,
                          [acc EXCEPT
                              !.calls = made,
                              !.by_name = dict_set(@, tpl.name, o),
                              !.by_role = map_set(@, tpl.role,
                                              Append(map_get(@, tpl.role, <<>>), o))])

\* the one element of a set: in { e(x) : x \in {call} } the outcome x of a
\* call is computed once, however often e reads it
only(S) == CHOOSE x \in S : TRUE

\* compile_index, were the by-name index bound before the loop and filled
\* in place
compile_index_in_place(R, cs) ==
    only({[self |-> IF done.out.kind = "raise"
                    THEN [R EXCEPT !._compiled_by_name = Some(done.by_name)]
                    ELSE [R EXCEPT !._compiled_by_name = Some(done.by_name),
                                   !._compiled_by_role = Some(done.by_role)],
           calls |-> done.calls,
           out |-> done.out] :
          done \in {compile_loop(iter_templates(R, None), 1,
                        [by_name |-> EmptyDict, by_role |-> EmptyMap,
                         calls |-> cs, out |-> Return(None)])}})

compile_index(R, cs) ==
    only({[self |-> IF done.out.kind = "raise" THEN R
                    ELSE [R EXCEPT !._compiled_by_name = Some(done.by_name),
                                   !._compiled_by_role = Some(done.by_role)],
           calls |-> done.calls,
           out |-> done.out] :
          done \in {compile_loop(iter_templates(R, None), 1,
                        [by_name |-> EmptyDict, by_role |-> EmptyMap,
                         calls |-> cs, out |-> Return(None)])}})

\* a call that did nothing
no_call(R, cs) == [self |-> R, calls |-> cs, out |-> Return(None)]

\* get, were the index compiled at every call
rt_get_uncached(R, cs, name) ==
    only({LET by_name == built.self._compiled_by_name
          IN  IF built.out.kind = "raise" THEN built
              ELSE [built EXCEPT !.out =
                       IF dict_has(by_name[1], name)
                       THEN Return(dict_get(by_name[1], name))
                       ELSE Raise("KeyError", name)] :
          built \in {compile_index(R, cs)}})

rt_get(R, cs, name) ==
    only({LET by_name == built.self._compiled_by_name
          IN  IF built.out.kind = "raise" THEN built
              ELSE [built EXCEPT !.out =
                       IF by_name = None
                       THEN Raise("RuntimeError", "No compiled templates available")
                       ELSE IF dict_has(by_name[1], name)
                       THEN Return(dict_get(by_name[1], name))
                       ELSE Raise("KeyError", name)] :
          built \in {IF R._compiled_by_name = None
                     THEN compile_index(R, cs) ELSE no_call(R, cs)}})

allows_concept(R, cs, template_name, concept_id) ==
    only({IF tpl.out.kind = "raise" THEN tpl
          ELSE [tpl EXCEPT !.out =
                   Return(concept_id \in tpl.out.value.value.entity_concept_ids)] :
          tpl \in {rt_get(R, cs, template_name)}})

\* allows_value, were a template without value slot taken to allow every
\* value
allows_value_unguarded(R, cs, template_name, concept_id) ==
    only({LET values == tpl.out.value.value.value_concept_ids
          IN  IF tpl.out.kind = "raise" THEN tpl
              ELSE [tpl EXCEPT !.out =
                       Return(values = None \/ concept_id \in values[1])] :
          tpl \in {rt_get(R, cs, template_name)}})

allows_value(R, cs, template_name, concept_id) ==
    only({LET values == tpl.out.value.value.value_concept_ids
          IN  IF tpl.out.kind = "raise" THEN tpl
              ELSE [tpl EXCEPT !.out =
                       Return(values # None /\ concept_id \in values[1])] :
          tpl \in {rt_get(R, cs, template_name)}})

rt_by_role(R, cs, role) ==
    only({LET by_role_ == built.self._compiled_by_role
          IN  IF built.out.kind = "raise" THEN built
              ELSE [built EXCEPT !.out =
                       IF by_role_ = None
                       THEN Raise("RuntimeError", "No compiled templates available")
                       ELSE Return(map_get(by_role_[1], role, <<>>))] :
          built \in {IF R._compiled_by_role = None
                     THEN compile_index(R, cs) ELSE no_call(R, cs)}})

\* role : Optional[str]
compile_all(R, cs, role) ==
    only({LET by_name == built.self._compiled_by_name
              by_role_ == built.self._compiled_by_role
          IN  IF built.out.kind = "raise" THEN built
              ELSE [built EXCEPT !.out =
                       IF by_name = None
                       THEN Raise("RuntimeError", "Template compilation failed")
                       ELSE IF role = None \/ by_role_ = None
                       THEN Return(dict_values(by_name[1]))
                       ELSE Return(map_get(by_role_[1], role[1], <<>>))] :
          built \in {IF R._compiled_by_name = None
                     THEN compile_index(R, cs) ELSE no_call(R, cs)}})

----------------------------------------------------------------------------
(* A caller holding one registry runtime.                                  *)

Profile == OmopCdmProfile("observation_simple", "observation",
                          "observation_concept_id", None)

\* templates that compile: a group entity with an enumeration value, a
\* single concept without value; and a template without entity reference
Demographic(n) ==
    OmopTemplate(n, "demographic",
        Some(OmopGroup("g", Some(<<Concept(Some(1), None), Concept(Some(MaxId), None)>>), None)),
        Some(OmopEnum("e", <<Concept(Some(MaxId), None), Concept(None, Some(<<97>>))>>, None)),
        Profile)
Staging(n) ==
    OmopTemplate(n, "staging",
        Some(OmopConcept("c", Some(1), None, None)), None, Profile)
NoEntity(n) == OmopTemplate(n, "staging", None, None, Profile)

\* the fragments: without groups; a group without members; one group, two
\* groups; two templates of one name; a template that does not compile,
\* last and first
Fragments ==
    {RegistryFragment(None),
     RegistryFragment(Some(<<RegistryGroup("G", "demographic", None)>>)),
     RegistryFragment(Some(<<RegistryGroup("G", "demographic",
                                Some(<<Demographic("t1"), Staging("t2")>>))>>)),
     RegistryFragment(Some(<<RegistryGroup("G", "demographic", Some(<<Demographic("t1")>>)),
                             RegistryGroup("H", "staging", Some(<<Staging("t2")>>))>>)),
     RegistryFragment(Some(<<RegistryGroup("G", "demographic",
                                Some(<<Demographic("t1"), Staging("t1")>>))>>)),
     RegistryFragment(Some(<<RegistryGroup("G", "demographic",
                                Some(<<Demographic("t1"), NoEntity("t2")>>))>>)),
     RegistryFragment(Some(<<RegistryGroup("G", "staging",
                                Some(<<NoEntity("t2"), Staging("t1")>>))>>))}

TemplateNames == {"t1", "t2", "t3"}
TemplateRoles == {"demographic", "staging", "outcome"}

InitRuntime ==
    \E fragment \in Fragments :
        /\ self = None
        /\ other = None
        /\ op = "__init__"
        /\ arg = None
        /\ result = None
        /\ runtime = OmopRegistryRuntime(fragment)
        /\ calls = <<>>
        /\ threads = <<>>

\* the caller stops calling when the compile calls would exceed MaxCalls
WithinCalls(call) == Len(call.calls) <= MaxCalls

\* the caller's call of a method of the runtime
Called(name, a, call) ==
    /\ WithinCalls(call)
    /\ op' = name
    /\ arg' = a
    /\ runtime' = call.self
    /\ calls' = call.calls
    /\ result' = call.out
    /\ UNCHANGED <<regvars, threads>>

CompileIndex ==
    \E call \in {compile_index(runtime, calls)} :
        Called("compile_index", None, call)

RuntimeGet ==
    \E name \in TemplateNames :
        \E call \in {rt_get(runtime, calls, name)} :
            Called("get", [name |-> name], call)

AllowsConcept ==
    \E name \in TemplateNames, concept_id \in ConceptIds :
        \E call \in {allows_concept(runtime, calls, name, concept_id)} :
            Called("allows_concept",
                   [template_name |-> name, concept_id |-> concept_id], call)

AllowsValue ==
    \E name \in TemplateNames, concept_id \in ConceptIds :
        \E call \in {allows_value(runtime, calls, name, concept_id)} :
            Called("allows_value",
                   [template_name |-> name, concept_id |-> concept_id], call)

RuntimeByRole ==
    \E role \in TemplateRoles :
        \E call \in {rt_by_role(runtime, calls, role)} :
            Called("by_role", [role |-> role], call)

CompileAll ==
    \E role \in {None} \cup {Some(r) : r \in TemplateRoles} :
        \E call \in {compile_all(runtime, calls, role)} :
            Called("compile_all", [role |-> role], call)

NextRuntime ==
    \/ CompileIndex \/ RuntimeGet \/ AllowsConcept \/ AllowsValue
    \/ RuntimeByRole \/ CompileAll

SpecRuntime == InitRuntime /\ [][NextRuntime]_vars

----------------------------------------------------------------------------
(* Properties of the registry runtime, checked under SpecRuntime.          *)

LazyQueries == {"get", "by_role", "compile_all", "allows_concept", "allows_value"}

AllTemplates(R) == iter_templates(R, None)

\* the templates of R that do not compile, by number
Failing(R) ==
    {i \in DOMAIN AllTemplates(R) : compile(AllTemplates(R)[i]).kind = "raise"}

AllCompile(R) == Failing(R) = {}

Unbuilt(R) == R._compiled_by_name = None /\ R._compiled_by_role = None

\* the compiled templates the by-name and the by-role index of R hold
IndexObjects(R) ==
    Range(dict_values(R._compiled_by_name[1]))
    \cup UNION {Range(R._compiled_by_role[1][r]) : r \in DOMAIN R._compiled_by_role[1]}

\* the compiled templates a call gave to its caller
Returned(name, out) ==
    IF out.kind = "raise" THEN {}
    ELSE IF name = "get" THEN {out.value}
    ELSE IF name \in {"by_role", "compile_all"} THEN Range(out.value)
    ELSE {}

\* C18: on a runtime whose templates all compile, the first get, by_role,
\* compile_all, allows_concept or allows_value call compiles each template
\* exactly once and builds the index; every later one of these calls makes
\* no compile call, leaves the index as it is and returns compiled
\* templates that are objects of the index.
C18_CompiledOnce ==
    [][(op' \in LazyQueries /\ AllCompile(runtime)) =>
          IF Unbuilt(runtime)
          THEN /\ calls' = calls \o [i \in DOMAIN AllTemplates(runtime) |-> i]
               /\ ~Unbuilt(runtime')
               /\ Returned(op', result') \subseteq IndexObjects(runtime')
          ELSE /\ calls' = calls
               /\ runtime' = runtime
               /\ Returned(op', result') \subseteq IndexObjects(runtime)
      ]_vars

C18_Witness ==
    /\ op = "allows_value"
    /\ result = Return(TRUE)
    /\ ~Unbuilt(runtime)
    /\ calls = <<1, 2>>

\* the values of a list of compiled templates
ValuesOf(os) == [k \in DOMAIN os |-> os[k].value]

\* both indexes hold every template of the fragment: each name is bound to
\* the compiled form of the last template of that name, each role to the
\* compiled forms of its templates in order
FullyBuilt(R) ==
    LET tpls == AllTemplates(R)
        by_name == R._compiled_by_name[1]
        by_role_ == R._compiled_by_role[1]
        last(n) == CHOOSE i \in DOMAIN tpls :
                      /\ tpls[i].name = n
                      /\ \A j \in DOMAIN tpls : tpls[j].name = n => j <= i
    IN  /\ R._compiled_by_name # None
        /\ R._compiled_by_role # None
        /\ AllCompile(R)
        /\ dict_keys(by_name) = {tpls[i].name : i \in DOMAIN tpls}
        /\ \A n \in dict_keys(by_name) :
              dict_get(by_name, n).value = compile(tpls[last(n)]).value
        /\ DOMAIN by_role_ = {tpls[i].role : i \in DOMAIN tpls}
        /\ \A r \in DOMAIN by_role_ :
              ValuesOf(by_role_[r])
                 = ValuesOf([k \in DOMAIN iter_templates(R, Some(r)) |->
                               compile(iter_templates(R, Some(r))[k])])

\* C19: when compiling a template fails during compile_index, called
\* directly or by a query, the caller gets that error and neither index is
\* set; between calls the two indexes are both unset or both fully built.
C19_AtomicFailure ==
    /\ [](Unbuilt(runtime) \/ FullyBuilt(runtime))
    /\ [][(/\ op' \in LazyQueries \cup {"compile_index"}
           /\ ~AllCompile(runtime)
           /\ op' = "compile_index" \/ Unbuilt(runtime)) =>
              /\ result' = compile(AllTemplates(runtime)[Min(Failing(runtime))])
              /\ result'.kind = "raise"
              /\ Unbuilt(runtime')
         ]_vars

C19_Witness ==
    /\ op = "get"
    /\ result.kind = "raise"
    /\ result.exc = "ValueError"
    /\ calls = <<1, 2, 1, 2>>
    /\ Unbuilt(runtime)

----------------------------------------------------------------------------
(* Threads sharing one registry runtime.  Each thread makes one call; a    *)
(* step of a thread is one statement of the method it is in, the loop of   *)
(* compile_index, which works on local dicts, being one step.  A switch    *)
(* of threads can come between any two statements.  The methods take no    *)
(* lock.                                                                   *)

Threads == 1 .. NumThreads

\* the calls a thread may make: [method, role, name]
ThreadCalls ==
    {[method |-> "compile_index", role |-> None, name |-> ""],
     [method |-> "compile_all", role |-> None, name |-> ""],
     [method |-> "compile_all", role |-> Some("staging"), name |-> ""],
     [method |-> "by_role", role |-> Some("staging"), name |-> ""],
     [method |-> "get", role |-> None, name |-> "t1"]}

\* one group of two templates that compile; a second template that does not
ThreadFragments ==
    {RegistryFragment(Some(<<RegistryGroup("G", "demographic",
                                Some(<<Demographic("t1"), Staging("t2")>>))>>)),
     RegistryFragment(Some(<<RegistryGroup("G", "demographic",
                                Some(<<Demographic("t1"), NoEntity("t2")>>))>>))}

\* a thread that has not made its call
Idle ==
    [pc |-> "idle", method |-> "", role |-> None, name |-> "",
     by_name |-> EmptyDict, by_role |-> EmptyMap, out |-> None]

InitThreads ==
    \E fragment \in ThreadFragments :
        /\ self = None
        /\ other = None
        /\ op = "__init__"
        /\ arg = None
        /\ result = None
        /\ runtime = OmopRegistryRuntime(fragment)
        /\ calls = <<>>
        /\ threads = [t \in Threads |-> Idle]

\* the attribute a method tests before it compiles the index: get and
\* compile_all test _compiled_by_name (lines 284, 340), by_role tests
\* _compiled_by_role (line 320)
tested(R, method) ==
    IF method = "by_role" THEN R._compiled_by_role ELSE R._compiled_by_name

\* thread t makes its call; compile_index starts at its loop
Start(t) ==
    \E c \in ThreadCalls :
        /\ threads[t].pc = "idle"
        /\ threads' = [threads EXCEPT ![t] =
              [Idle EXCEPT !.method = c.method, !.role = c.role, !.name = c.name,
                           !.pc = IF c.method = "compile_index" THEN "loop" ELSE "check"]]
        /\ UNCHANGED <<regvars, op, arg, result, runtime, calls>>

\* if self._compiled_by_... is None: self.compile_index()  (lines 284, 320, 340)
Check(t) ==
    /\ threads[t].pc = "check"
    /\ threads' = [threads EXCEPT ![t].pc =
          IF tested(runtime, threads[t].method) = None THEN "loop" ELSE "recheck"]
    /\ UNCHANGED <<regvars, op, arg, result, runtime, calls>>

\* compile_index, lines 252-258: an exception leaves the method and its caller
Loop(t) ==
    LET done == compile_loop(iter_templates(runtime, None), 1,
                    [by_name |-> EmptyDict, by_role |-> EmptyMap,
                     calls |-> calls, out |-> Return(None)])
    IN  /\ threads[t].pc = "loop"
        /\ calls' = done.calls
        /\ threads' = [threads EXCEPT ![t] =
              IF done.out.kind = "raise"
              THEN [@ EXCEPT !.pc = "done", !.out = done.out]
              ELSE [@ EXCEPT !.pc = "bind_name", !.by_name = done.by_name,
                             !.by_role = done.by_role]]
        /\ UNCHANGED <<regvars, op, arg, result, runtime>>

\* self._compiled_by_name = by_name  (line 260)
BindName(t) ==
    /\ threads[t].pc = "bind_name"
    /\ runtime' = [runtime EXCEPT !._compiled_by_name = Some(threads[t].by_name)]
    /\ threads' = [threads EXCEPT ![t].pc = "bind_role"]
    /\ UNCHANGED <<regvars, op, arg, result, calls>>

\* self._compiled_by_role = by_role  (line 261), and compile_index returns
BindRole(t) ==
    /\ threads[t].pc = "bind_role"
    /\ runtime' = [runtime EXCEPT !._compiled_by_role = Some(threads[t].by_role)]
    /\ threads' = [threads EXCEPT ![t] =
          IF @.method = "compile_index"
          THEN [@ EXCEPT !.pc = "done", !.out = Return(None)]
          ELSE [@ EXCEPT !.pc = "recheck"]]
    /\ UNCHANGED <<regvars, op, arg, result, calls>>

\* if self._compiled_by_... is None: raise RuntimeError  (lines 286, 322, 342)
Recheck(t) ==
    /\ threads[t].pc = "recheck"
    /\ threads' = [threads EXCEPT ![t] =
          IF tested(runtime, @.method) = None
          THEN [@ EXCEPT !.pc = "done",
                         !.out = Raise("RuntimeError",
                                    IF @.method = "compile_all"
                                    THEN "Template compilation failed"
                                    ELSE "No compiled templates available")]
          ELSE IF @.method = "compile_all"
          THEN [@ EXCEPT !.pc = "test"]
          ELSE [@ EXCEPT !.pc = "return"]]
    /\ UNCHANGED <<regvars, op, arg, result, runtime, calls>>

\* if role is None or self._compiled_by_role is None:  (line 344)
Test(t) ==
    /\ threads[t].pc = "test"
    /\ threads' = [threads EXCEPT ![t].pc =
          IF threads[t].role = None \/ runtime._compiled_by_role = None
          THEN "return_all" ELSE "return"]
    /\ UNCHANGED <<regvars, op, arg, result, runtime, calls>>

\* the return statements (lines 288, 324, 345, 346)
ReturnStatement(t) ==
    LET f == threads[t]
        by_name == runtime._compiled_by_name[1]
        by_role_ == runtime._compiled_by_role[1]
    IN  /\ f.pc \in {"return", "return_all"}
        /\ threads' = [threads EXCEPT ![t] =
              [@ EXCEPT !.pc = "done", !.out =
                  IF f.pc = "return_all" THEN Return(dict_values(by_name))
                  ELSE IF f.method = "get"
                  THEN IF dict_has(by_name, f.name)
                       THEN Return(dict_get(by_name, f.name))
                       ELSE Raise("KeyError", f.name)
                  ELSE Return(map_get(by_role_, f.role[1], <<>>))]]
        /\ UNCHANGED <<regvars, op, arg, result, runtime, calls>>

NextThreads ==
    \E t \in Threads :
        \/ Start(t) \/ Check(t) \/ Loop(t) \/ BindName(t) \/ BindRole(t)
        \/ Recheck(t) \/ Test(t) \/ ReturnStatement(t)

SpecThreads == InitThreads /\ [][NextThreads]_vars

\* what the call of a thread gives a single caller who has run compile_index
\* to completion first
Sequential(f) ==
    LET built == compile_index(OmopRegistryRuntime(runtime.fragment), <<>>)
    IN  IF built.out.kind = "raise" THEN built.out
        ELSE IF f.method = "get" THEN rt_get(built.self, built.calls, f.name).out
        ELSE IF f.method = "by_role"
        THEN rt_by_role(built.self, built.calls, f.role[1]).out
        ELSE compile_all(built.self, built.calls, f.role).out

\* a result without the identities of the compiled templates in it
Values(method, out) ==
    IF out.kind = "raise" THEN out
    ELSE IF method = "get" THEN Return(out.value.value)
    ELSE Return(ValuesOf(out.value))

\* C20: every query a thread makes on the shared runtime returns what it
\* would return after a completed sequential compile_index; compile_all(role)
\* and by_role(role) return no template of another role, however the
\* threads interleave.
C20_ThreadsSeeCompleteIndex ==
    \A t \in Threads :
        LET f == threads[t]
        IN  (f.pc = "done" /\ f.method # "compile_index") =>
               /\ Values(f.method, f.out) = Values(f.method, Sequential(f))
               /\ (f.out.kind = "return" /\ f.role # None) =>
                     \A k \in DOMAIN f.out.value :
                        f.out.value[k].value.role = f.role[1]

----------------------------------------------------------------------------
(* Membership tests against a compiled template, checked under             *)
(* SpecRuntime.                                                            *)

\* the numbers of the templates of R called name
Named(R, name) == {i \in DOMAIN AllTemplates(R) : AllTemplates(R)[i].name = name}

\* the template the by-name index keeps for name: the last one of that name
TemplateCalled(R, name) ==
    AllTemplates(R)[CHOOSE i \in Named(R, name) : \A j \in Named(R, name) : j <= i]

----------------------------------------------------------------------------
(* The value-set namespace (runtime/value_sets.py).  Names and labels are  *)
(* str values (sequences of character codes), since a lookup compares an   *)
(* attribute name with both.                                               *)

CDMSemanticUnits(name, named_enumerators, named_concepts, named_groups) ==
    [name |-> name, named_enumerators |-> named_enumerators,
     named_concepts |-> named_concepts, named_groups |-> named_groups]

\* truth value of an Optional[str] and of an Optional[int]
truthy_str(x) == x # None /\ x[1] # <<>>
truthy_int(x) == x # None /\ x[1] # 0

\* an int handed to the caller
int(i) == [class |-> "int", value |-> i]

\* {c.label: c.concept_id for c in members if c.label and c.concept_id}
RECURSIVE labelled(_, _, _)
labelled(acc, members, i) ==
    IF i > Len(members) THEN acc
    ELSE LET c == members[i]
         IN  labelled(IF truthy_str(c.label) /\ truthy_int(c.concept_id)
                      THEN dict_set(acc, c.label[1], c.concept_id[1])
                      ELSE acc,
                      members, i + 1)

\* "[group]" and "[enum]"
GroupDefaultName == <<91, 103, 114, 111, 117, 112, 93>>
EnumDefaultName == <<91, 101, 110, 117, 109, 93>>

RuntimeGroup(group) ==
    [class |-> "RuntimeGroup",
     _group |-> group,
     _name |-> IF truthy_str(group.name) THEN group.name[1] ELSE GroupDefaultName,
     _by_label |-> labelled(EmptyDict, or_empty(group.parent_concepts), 1)]

RuntimeEnum(enum) ==
    [class |-> "RuntimeEnum",
     _enum |-> enum,
     _name |-> IF truthy_str(enum.name) THEN enum.name[1] ELSE EnumDefaultName,
     _by_label |-> labelled(EmptyDict, enum.enum_members, 1)]

is_singleton(g) == Len(g._by_label) = 1

\* RuntimeGroup.value
group_value(g) ==
    IF ~is_singleton(g)
    THEN Raise("AttributeError", g._name)
    ELSE Return(dict_values(g._by_label)[1])

\* _RuntimeLabelledConcepts.ids
labelled_ids(x) == Range(dict_values(x._by_label))

\* _RuntimeLabelledConcepts.__getattr__ for a name that is not an attribute
\* of the class (95 is "_")
labelled_getattr(x, label) ==
    IF label # <<>> /\ label[1] = 95
    THEN Raise("AttributeError", label)
    ELSE IF dict_has(x._by_label, label)
    THEN Return(int(dict_get(x._by_label, label)))
    ELSE Raise("KeyError", label)

\* {x.name: x for x in (items or []) if x and x.name}
RECURSIVE named(_, _, _)
named(acc, items, i) ==
    IF i > Len(items) THEN acc
    ELSE named(IF truthy_str(items[i].name)
               THEN dict_set(acc, items[i].name[1], items[i])
               ELSE acc,
               items, i + 1)

\* the dicts of lines 202-204: the enumerations and the groups wrapped, the
\* concepts as they are
RuntimeSemanticUnit(unit) ==
    LET es == named(EmptyDict, or_empty(unit.named_enumerators), 1)
        gs == named(EmptyDict, or_empty(unit.named_groups), 1)
    IN  [_unit |-> unit,
         enums |-> [k \in DOMAIN es |-> [k |-> es[k].k, v |-> RuntimeEnum(es[k].v)]],
         groups |-> [k \in DOMAIN gs |-> [k |-> gs[k].k, v |-> RuntimeGroup(gs[k].v)]],
         concepts |-> named(EmptyDict, or_empty(unit.named_concepts), 1)]

\* RuntimeSemanticUnit.ids
unit_ids(U) ==
    UNION {labelled_ids(U.enums[k].v) : k \in DOMAIN U.enums}
    \cup UNION {labelled_ids(U.groups[k].v) : k \in DOMAIN U.groups}
    \cup {U.concepts[k].v.concept_id[1] :
             k \in {j \in DOMAIN U.concepts : truthy_int(U.concepts[j].v.concept_id)}}

\* the flattened lookup (lines 233-240): the first enum or group whose
\* getattr raises no AttributeError answers; any other exception leaves
\* the loop
RECURSIVE flattened(_, _, _)
flattened(items, i, name) ==
    IF i > Len(items) THEN Raise("AttributeError", name)
    ELSE LET r == labelled_getattr(items[i], name)
         IN  IF r.kind = "raise" /\ r.exc = "AttributeError"
             THEN flattened(items, i + 1, name)
             ELSE r

\* RuntimeSemanticUnit.__getattr__ for a name that is not an attribute of
\* the class
unit_getattr(U, name) ==
    IF dict_has(U.enums, name) THEN Return(dict_get(U.enums, name))
    ELSE IF dict_has(U.groups, name)
    THEN LET g == dict_get(U.groups, name)
         IN  IF is_singleton(g) THEN Return(int(group_value(g).value))
             ELSE Return(g)
    ELSE IF dict_has(U.concepts, name) THEN Return(dict_get(U.concepts, name))
    ELSE flattened(dict_values(U.enums) \o dict_values(U.groups), 1, name)

----------------------------------------------------------------------------
(* A caller looking names up on one semantic unit.                         *)

\* anchors: with identifier and label, without label, without identifier
Anchors ==
    {Concept(Some(i), l) : i \in ConceptIds, l \in {None, Some(label_of(1)), Some(label_of(2))}}
    \cup {Concept(None, Some(label_of(1)))}

AnchorLists == {None, Some(<<>>)} \cup {Some(<<a>>) : a \in Anchors}
               \cup {Some(<<a, b>>) : a, b \in Anchors}

\* "g", "e"
GroupName == <<103>>
EnumName == <<101>>

\* units with one group named g and, or not, an enumeration named e
Units ==
    {CDMSemanticUnits(Some(<<117>>), es, None,
                      Some(<<OmopGroup(Some(GroupName), anchors, None)>>)) :
        anchors \in AnchorLists,
        es \in {None,
                Some(<<OmopEnum(Some(EnumName), <<Concept(Some(MaxId), Some(label_of(2)))>>, None)>>)}}

\* names looked up: the group, the enumeration, labels, a private name
AttrNames == {GroupName, EnumName, label_of(1), label_of(2), <<95, 120>>}

InitValueSets ==
    \E unit \in Units :
        /\ self = RuntimeSemanticUnit(unit)
        /\ other = None
        /\ op = "__init__"
        /\ arg = None
        /\ result = None
        /\ NoRuntime

GetAttr ==
    \E name \in AttrNames :
        /\ op' = "__getattr__"
        /\ arg' = [name |-> name]
        /\ result' = unit_getattr(self, name)
        /\ UNCHANGED <<regvars, rtvars>>

UnitIds ==
    /\ op' = "ids"
    /\ arg' = None
    /\ result' = Return(unit_ids(self))
    /\ UNCHANGED <<regvars, rtvars>>

NextValueSets == GetAttr \/ UnitIds

SpecValueSets == InitValueSets /\ [][NextValueSets]_vars

\* the anchors the group called name declares on the unit
AnchorsOf(U, name) ==
    LET gs == or_empty(U._unit.named_groups)
        last == CHOOSE i \in DOMAIN gs :
                   /\ gs[i].name = Some(name)
                   /\ \A j \in DOMAIN gs : gs[j].name = Some(name) => j <= i
    IN  or_empty(gs[last].parent_concepts)

\* C22: looking up a named group on a semantic unit gives a bare identifier
\* iff the group declares exactly one anchor, and then the identifier of
\* that anchor; a group with another number of anchors gives a
\* label-to-identifier namespace that contains every anchor of the group.
C22_SingletonUnwrapping ==
    (op = "__getattr__" /\ arg.name = GroupName) =>
        LET anchors == AnchorsOf(self, GroupName)
        IN  /\ result.kind = "return"
            /\ IF Len(anchors) = 1
               THEN /\ result.value.class = "int"
                    /\ Some(result.value.value) = anchors[1].concept_id
               ELSE /\ result.value.class = "RuntimeGroup"
                    /\ \A k \in DOMAIN anchors :
                          \E e \in DOMAIN result.value._by_label :
                             /\ Some(result.value._by_label[e].k) = anchors[k].label
                             /\ Some(result.value._by_label[e].v) = anchors[k].concept_id

----------------------------------------------------------------------------
(* The structured document: ConceptRegistry.to_linkml_instances and its    *)
(* reader load_instances_any (utils/instance_manager.py).  The document is *)
(* a dict from str keys to blocks; a block is a record having the keys the *)
(* code wrote, an optional key being None or Some(value).  The document is *)
(* taken to pass through the external writer and the parser unchanged.     *)

\* s.replace(" ", "_")
replace_spaces(s) == [i \in DOMAIN s |-> IF s[i] = 32 THEN 95 ELSE s[i]]

\* the header keys "id", "name", "description"
KeyId == <<105, 100>>
KeyName == <<110, 97, 109, 101>>
KeyDescription == <<100, 101, 115, 99, 114, 105, 112, 116, 105, 111, 110>>

\* the keys the reader skips: id, name, title, description, imports, prefixes
HeaderKeys ==
    {KeyId, KeyName, <<116, 105, 116, 108, 101>>, KeyDescription,
     <<105, 109, 112, 111, 114, 116, 115>>,
     <<112, 114, 101, 102, 105, 120, 101, 115>>}

\* a header value of the document
scalar(s) == [scalar |-> s]

\* out[key] = value if value is truthy (lines 220-225)
header(out, key, value) ==
    IF truthy_str(value) THEN dict_set(out, key, scalar(value[1])) ELSE out

\* the loop over the concepts in identifier order (lines 228-236)
RECURSIVE emit_concepts(_, _, _, _)
emit_concepts(out, R, ids, concept_class_uri) ==
    IF ids = <<>> THEN out
    ELSE LET c == dict_get(R._concepts, Head(ids))
         IN  emit_concepts(
                 dict_set(out, replace_spaces(c.label),
                     [class_uri |-> concept_class_uri,
                      concept_id |-> c.concept_id,
                      label |-> c.label,
                      role |-> c.role,
                      parent_concepts |-> IF c.parents # <<>> THEN Some(c.parents) ELSE None,
                      notes |-> IF truthy_str(c.notes) THEN c.notes ELSE None]),
                 R, Tail(ids), concept_class_uri)

\* the loop over the groups in the order of their lowercase names (lines
\* 238-246)
RECURSIVE emit_groups(_, _, _, _)
emit_groups(out, R, keys, group_class_uri) ==
    IF keys = <<>> THEN out
    ELSE LET g == dict_get(R._groups, Head(keys))
         IN  emit_groups(
                 dict_set(out, replace_spaces(g.name),
                     [class_uri |-> group_class_uri,
                      name |-> g.name,
                      role |-> g.role,
                      members |-> g.members,
                      notes |-> IF truthy_str(g.notes) THEN g.notes ELSE None]),
                 R, Tail(keys), group_class_uri)

to_linkml_instances(R, doc_id, name, description, include_groups) ==
    LET head == header(header(header(EmptyDict, KeyId, doc_id), KeyName, name),
                       KeyDescription, description)
        cs == emit_concepts(head, R, sorted_int(dict_keys(R._concepts)), "OmopConcept")
    IN  IF include_groups
        THEN emit_groups(cs, R, sorted_str(dict_keys(R._groups)), "ConceptGroup")
        ELSE cs

\* "key in block" for a block of the document
has_key(m, key) == key \in DOMAIN m

\* the loop of lines 72-118 over one document whose references are all
\* integers (resolve_refs then leaves them as they are); acc holds the two
\* lists
RECURSIVE load_blocks(_, _, _)
load_blocks(acc, data, i) ==
    IF i > Len(data) THEN acc
    ELSE LET key == data[i].k
             m == data[i].v
         IN  load_blocks(
                 IF key \in HeaderKeys \/ has_key(m, "scalar") THEN acc
                 ELSE IF has_key(m, "concept_id")
                 THEN [acc EXCEPT !.concepts = Append(@,
                         ConceptRecord(
                             m.concept_id,
                             IF m.label # <<>> THEN m.label ELSE key,
                             IF m.role # "" THEN m.role ELSE "metadata",
                             or_empty(m.parent_concepts),
                             m.notes,
                             None))]
                 ELSE IF has_key(m, "members")
                 THEN [acc EXCEPT !.groups = Append(@,
                         ConceptGroupRecord(
                             IF m.name # <<>> THEN m.name ELSE key,
                             IF m.role # "" THEN m.role ELSE "metadata",
                             m.members,
                             m.notes,
                             None,
                             FALSE))]
                 ELSE acc,
                 data, i + 1)

\* load_instances_any for one document, given as the parsed mapping
load_instances_any(data) ==
    load_blocks([concepts |-> <<>>, groups |-> <<>>], data, 1)

----------------------------------------------------------------------------
(* A caller who writes a registry out and reads it back.                   *)

\* "a b", "n"; the value type "numeric" and the group kind "value_set"
LabelAB == <<97, 32, 98>>
NoteN == <<110>>

\* concept i: labelled "a" or "a b", with or without a parent, notes and
\* value type
RoundTripConcepts(i) ==
    {ConceptRecord(i, l, "x", p, n, v) :
        l \in {label_of(1), LabelAB},
        p \in {<<>>, <<1>>},
        n \in {None, Some(NoteN)},
        v \in {None, Some("numeric")}}

RoundTripConceptInputs ==
    Concat([i \in ConceptIds |->
               {<<>>} \cup {<<c>> : c \in RoundTripConcepts(i)}], MaxId)

\* no group, a group "g", a group "a" (the label of a concept)
RoundTripGroupInputs ==
    {<<>>,
     <<ConceptGroupRecord(<<103>>, "x", <<1>>, None, None, FALSE)>>,
     <<ConceptGroupRecord(label_of(1), "x", <<1>>, Some(NoteN), None, FALSE)>>}

InitRoundTrip ==
    /\ self \in {ConceptRegistry(cs, gs, None) :
                    cs \in RoundTripConceptInputs, gs \in RoundTripGroupInputs}
    /\ other = None
    /\ op = "__init__"
    /\ arg = None
    /\ result = None
    /\ NoRuntime

ToLinkmlInstances ==
    /\ op = "__init__"
    /\ op' = "to_linkml_instances"
    /\ arg' = None
    /\ result' = Return(to_linkml_instances(self, None, None, None, TRUE))
    /\ UNCHANGED <<regvars, rtvars>>

\* the records read back from the document, and the registry built of them
LoadInstancesAny ==
    /\ op = "to_linkml_instances"
    /\ \E read \in {load_instances_any(result.value)} :
          /\ other' = ConceptRegistry(read.concepts, read.groups, None)
          /\ result' = Return(read)
    /\ op' = "load_instances_any"
    /\ arg' = result.value
    /\ UNCHANGED <<self, rtvars>>

\* the diff of the registry against the one read back
DiffReadBack ==
    /\ op = "load_instances_any"
    /\ op' = "diff"
    /\ arg' = None
    /\ result' = diff(self, other).out
    /\ UNCHANGED <<regvars, rtvars>>

NextRoundTrip == ToLinkmlInstances \/ LoadInstancesAny \/ DiffReadBack

SpecRoundTrip == InitRoundTrip /\ [][NextRoundTrip]_vars

\* C23: the registry built from the concept and group records read back
\* out of R.to_linkml_instances() has an empty diff against R: no concept
\* and no group is added, removed or changed.
C23_RoundTrip ==
    op = "diff" => (result.kind = "return" /\ DiffIsEmpty(result.value))

----------------------------------------------------------------------------
(* The role index against the concept map, checked under Spec.             *)

\* the roles the concepts of R carry
CarriedRoles(R) == {dict_get(R._concepts, i).role : i \in dict_keys(R._concepts)}

\* C24: in every registry reached by construction and any sequence of
\* with_added_concept, with_updated_concept, with_concepts and merge, an
\* identifier is in by_role(r) iff it is a concept of the registry whose
\* role is r, and the role count of summary() is the number of distinct
\* roles its concepts carry.
C24_RoleIndexAgrees ==
    /\ \A r \in ProbeRoles, i \in 1 .. (MaxId + 1) :
          (i \in by_role(self, r).out.value)
             <=> (has(self, i) /\ get(self, i).value.role = r)
    /\ summary(self).out.value.roles = Cardinality(CarriedRoles(self))

----------------------------------------------------------------------------
(* Group queries of ConceptRegistry, on registries with several groups.    *)

\* self._groups[name.lower()]
group(R, name) ==
    IF dict_has(R._groups, lower(name))
    THEN Return(dict_get(R._groups, lower(name)))
    ELSE Raise("KeyError", lower(name))

try_group(R, name) ==
    IF dict_has(R._groups, lower(name))
    THEN Some(dict_get(R._groups, lower(name)))
    ELSE None

\* self.group(name).members
group_members(R, name) ==
    LET g == group(R, name)
    IN  IF g.kind = "raise" THEN g ELSE Return(g.value.members)

\* groups "G" with members, "g" of another role, "g" and "H" without
\* members
GroupCandidates ==
    {ConceptGroupRecord(<<71>>, "x", <<1>>, None, None, FALSE),
     ConceptGroupRecord(<<71>>, "x", <<1, MaxId + 1>>, None, None, FALSE),
     ConceptGroupRecord(<<103>>, "z", <<MaxId + 1>>, None, None, FALSE),
     ConceptGroupRecord(<<103>>, "x", <<>>, None, None, FALSE),
     ConceptGroupRecord(<<72>>, "x", <<>>, None, None, FALSE)}

GroupsInputs ==
    {<<>>} \cup {<<g>> : g \in GroupCandidates}
           \cup {<<g, h>> : g, h \in GroupCandidates}

\* "G", "g", "H", "h", "K"
GroupNames == {<<71>>, <<103>>, <<72>>, <<104>>, <<75>>}

InitGroups ==
    \E gs \in GroupsInputs,
       cs \in {<<>>, <<ConceptRecord(1, label_of(1), "x", <<>>, None, None)>>} :
        /\ self = ConceptRegistry(cs, gs, None)
        /\ other = ConceptRegistry(<<>>, <<>>, None)
        /\ op = "__init__"
        /\ arg = [concepts |-> cs, groups |-> gs, schema |-> None]
        /\ result = None
        /\ NoRuntime

Group ==
    \E n \in GroupNames :
        /\ op' = "group"
        /\ arg' = [name |-> n]
        /\ result' = group(self, n)
        /\ UNCHANGED <<regvars, rtvars>>

TryGroup ==
    \E n \in GroupNames :
        /\ op' = "try_group"
        /\ arg' = [name |-> n]
        /\ result' = Return(try_group(self, n))
        /\ UNCHANGED <<regvars, rtvars>>

GroupMembers ==
    \E n \in GroupNames :
        /\ op' = "group_members"
        /\ arg' = [name |-> n]
        /\ result' = group_members(self, n)
        /\ UNCHANGED <<regvars, rtvars>>

\* self.groups(), as a list
Groups ==
    /\ op' = "groups"
    /\ arg' = None
    /\ result' = Return(groups(self))
    /\ UNCHANGED <<regvars, rtvars>>

NextGroups ==
    \/ Group \/ TryGroup \/ GroupMembers \/ Groups
    \/ GroupsFor \/ InGroup \/ GroupsByRole

SpecGroups == InitGroups /\ [][NextGroups]_vars

\* C25: groups_by_role(r) holds exactly the groups of the registry (those
\* that groups() returns) whose role is r, the groups without members
\* included and the groups replaced by a later group of the same lowercase
\* name excluded.
C25_GroupsByRole ==
    op = "groups_by_role" =>
        /\ result.kind = "return"
        /\ Range(dict_values(result.value))
              = {g \in Range(groups(self)) : g.role = arg.role}

\* C26: for a name n, in any casing, for which group(n) succeeds,
\* in_group(id, n) is true iff id is in group_members(n); and id is in
\* group_members(n2) for every name n2 in groups_for(id).
C26_MembershipAgrees ==
    /\ (op = "in_group" /\ group(self, arg.group).kind = "return") =>
          (result.value
              <=> arg.concept_id \in Range(group_members(self, arg.group).value))
    /\ op = "groups_for" =>
          \A n2 \in result.value :
             /\ group_members(self, n2).kind = "return"
             /\ arg.concept_id \in Range(group_members(self, n2).value)

----------------------------------------------------------------------------
(* The two compiled indexes against each other, checked under SpecRuntime. *)

\* the compiled templates by_role returns, over all roles, as (role,
\* position) entries
ByRoleEntries(R, cs) ==
    UNION {{<<r, k>> : k \in DOMAIN rt_by_role(R, cs, r).out.value} : r \in TemplateRoles}

\* C27: after compile_index on any fragment, two templates of one name
\* included, compile_all() without a role returns exactly the compiled
\* templates found in the by_role(r) lists over all roles r, each once, and
\* every compiled template c of by_role(r) satisfies get(c.name) == c.
C27_IndexesAgree ==
    (op = "compile_index" /\ result.kind = "return") =>
        LET all == compile_all(runtime, calls, None).out.value
            entries == ByRoleEntries(runtime, calls)
            at(e) == rt_by_role(runtime, calls, e[1]).out.value[e[2]]
        IN  /\ Range(all) = {at(e) : e \in entries}
            /\ Len(all) = Cardinality(entries)
            /\ \A e \in entries :
                  /\ rt_get(runtime, calls, at(e).value.name).out.kind = "return"
                  /\ rt_get(runtime, calls, at(e).value.name).out.value.value = at(e).value

----------------------------------------------------------------------------
(* Algebra of merge and diff, checked under SpecMerge.                     *)

\* C28: a.merge(b, strategy='prefer_self') and b.merge(a,
\* strategy='prefer_other') hold equal concept maps and equal group maps:
\* the diff between the two results is empty in all six sets.
C28_MergeMirror ==
    (op = "merge" /\ arg.strategy = "prefer_self") =>
        LET mirror == merge(other, self, "prefer_other").out
        IN  /\ result.kind = "return"
            /\ mirror.kind = "return"
            /\ Range(result.value._concepts) = Range(mirror.value._concepts)
            /\ Range(result.value._groups) = Range(mirror.value._groups)
            /\ DiffIsEmpty(from_registries(result.value, mirror.value))

\* the two registries disagree on a concept and on a group, the second
\* has a concept the first has not and the first a group the second has not
C28_Witness ==
    /\ op = "merge" /\ arg.strategy = "prefer_self"
    /\ ConceptConflict(self, other) /\ GroupConflict(self, other)
    /\ ConceptIdsOf(other) \ ConceptIdsOf(self) # {}
    /\ GroupKeysOf(self) \ GroupKeysOf(other) # {}
    /\ DiffIsEmpty(from_registries(result.value,
                                   merge(other, self, "prefer_other").out.value))

\* C29: with m = a.merge(b, strategy='prefer_self'), a.diff(m) has empty
\* removed and changed sets for concepts and for groups and its added
\* concepts are the identifiers of b that a has not; merging a registry
\* with itself, under any strategy, gives a registry whose diff against it
\* is empty.
C29_MergeExtends ==
    /\ (op = "merge" /\ arg.strategy = "prefer_self") =>
          /\ result.kind = "return"
          /\ LET d == diff(self, result.value).out.value
             IN  /\ d.removed_concepts = <<>> /\ d.changed_concepts = <<>>
                 /\ d.removed_groups = <<>> /\ d.changed_groups = <<>>
                 /\ d.added_concepts
                       = sorted_int(ConceptIdsOf(other) \ ConceptIdsOf(self))
    /\ (op = "merge" /\ other = self) =>
          /\ result.kind = "return"
          /\ DiffIsEmpty(diff(self, result.value).out.value)

\* a merge that added a concept of b and kept a's record of a concept both
\* have with unequal records
C29_Witness ==
    /\ op = "merge" /\ arg.strategy = "prefer_self"
    /\ ConceptConflict(self, other)
    /\ GroupConflict(self, other)
    /\ diff(self, result.value).out.value.added_concepts # <<>>
    /\ diff(self, result.value).out.value.changed_concepts = <<>>

----------------------------------------------------------------------------
(* The two fixed tables of unknown placeholders: the enumeration Unknown   *)
(* (unknowns.py, on ConceptEnum of base.py) and the dict UNKNOWN           *)
(* (runtime/unknown_handlers.py).                                          *)

\* the members of the enumeration, in the order of their definition
Unknown ==
    <<[name |-> "generic", value |-> 4129922],
      [name |-> "gender", value |-> 4214687],
      [name |-> "condition", value |-> 44790729],
      [name |-> "cancer", value |-> 36402660],
      [name |-> "grade", value |-> 4264626],
      [name |-> "stage", value |-> 36768646],
      [name |-> "stage_edition", value |-> 1634449],
      [name |-> "cob", value |-> 40482029],
      [name |-> "drug_trial", value |-> 4090378],
      [name |-> "therapeutic_regimen", value |-> 4207655]>>

UnknownValue(concept_id, label, reason) ==
    [concept_id |-> concept_id, label |-> label, reason |-> reason]

UNKNOWN ==
    [generic |-> UnknownValue(4129922, "Unknown", "missing"),
     gender |-> UnknownValue(4214687, "Gender Unknown", "missing"),
     condition |-> UnknownValue(44790729, "Unknown problem", "mapping_failed"),
     cancer |-> UnknownValue(36402660, "Unknown histology of unknown primary site",
                             "mapping_failed"),
     grade |-> UnknownValue(4264626, "Grade not determined", "not_recorded"),
     stage |-> UnknownValue(36768646, "Cancer Modifier Origin Grade X", "not_recorded"),
     cob |-> UnknownValue(40482029, "Country of birth unknown", "missing"),
     stage_edition |-> UnknownValue(1634449, "8th", "default_value"),
     therapeutic_regimen |-> UnknownValue(4207655, "prescription of therapeutic regimen",
                                          "mapping_failed"),
     drug_trial |-> UnknownValue(4207655, "clinical drug trial", "ambiguous")]

\* ConceptEnum.values, labels, has, try_name; concept_id : Optional[int]
enum_values(cls) == {cls[i].value : i \in DOMAIN cls}

enum_labels(cls) == [i \in DOMAIN cls |-> cls[i].name]

enum_has(cls, concept_id) ==
    IF concept_id = None THEN FALSE ELSE concept_id[1] \in enum_values(cls)

try_name(cls, concept_id) ==
    IF concept_id = None THEN None
    ELSE IF concept_id[1] \in enum_values(cls)
    THEN Some(cls[CHOOSE i \in DOMAIN cls : cls[i].value = concept_id[1]].name)
    ELSE None

\* cls[name].value
enum_member(cls, name) ==
    IF \E i \in DOMAIN cls : cls[i].name = name
    THEN Return(cls[CHOOSE i \in DOMAIN cls : cls[i].name = name].value)
    ELSE Raise("KeyError", name)

\* Unknown.is_unknown
Unknown_is_unknown(concept_id) ==
    concept_id = None \/ concept_id[1] \in enum_values(Unknown)

\* UNKNOWN[key]
unknown_lookup(key) ==
    IF key \in DOMAIN UNKNOWN THEN Return(UNKNOWN[key]) ELSE Raise("KeyError", key)

----------------------------------------------------------------------------
(* A caller of the two tables; other is the entry it last took from        *)
(* UNKNOWN.                                                                *)

UnknownKeys == DOMAIN UNKNOWN \cup Range(enum_labels(Unknown)) \cup {"site"}

\* identifiers asked about: absent, those of either table, and one of
\* neither
UnknownIds ==
    {None} \cup {Some(i) : i \in enum_values(Unknown)
                              \cup {UNKNOWN[k].concept_id : k \in DOMAIN UNKNOWN}
                              \cup {MaxId}}

InitUnknown ==
    /\ self = None
    /\ other = None
    /\ op = "__init__"
    /\ arg = None
    /\ result = None
    /\ NoRuntime

UnknownLookup ==
    \E key \in UnknownKeys :
        /\ op' = "UNKNOWN"
        /\ arg' = [key |-> key]
        /\ result' = unknown_lookup(key)
        /\ other' = IF result'.kind = "return" THEN result'.value ELSE other
        /\ UNCHANGED <<self, rtvars>>

UnknownMember ==
    \E key \in UnknownKeys :
        /\ op' = "Unknown"
        /\ arg' = [key |-> key]
        /\ result' = enum_member(Unknown, key)
        /\ UNCHANGED <<regvars, rtvars>>

UnknownIsUnknown ==
    \E i \in UnknownIds \cup (IF other = None THEN {} ELSE {Some(other.concept_id)}) :
        /\ op' = "is_unknown"
        /\ arg' = [concept_id |-> i]
        /\ result' = Return(Unknown_is_unknown(i))
        /\ UNCHANGED <<regvars, rtvars>>

UnknownHas ==
    \E i \in UnknownIds :
        /\ op' = "has"
        /\ arg' = [concept_id |-> i]
        /\ result' = Return(enum_has(Unknown, i))
        /\ UNCHANGED <<regvars, rtvars>>

UnknownTryName ==
    \E i \in UnknownIds :
        /\ op' = "try_name"
        /\ arg' = [concept_id |-> i]
        /\ result' = Return(try_name(Unknown, i))
        /\ UNCHANGED <<regvars, rtvars>>

NextUnknown ==
    \/ UnknownLookup \/ UnknownMember \/ UnknownIsUnknown
    \/ UnknownHas \/ UnknownTryName

SpecUnknown == InitUnknown /\ [][NextUnknown]_vars

\* C30: for every context key of both tables, UNKNOWN and the enumeration
\* Unknown give the same concept identifier; and Unknown.is_unknown(id) is
\* true for the identifier of every UNKNOWN entry and for an absent
\* identifier.
C30_UnknownTablesAgree ==
    /\ (op = "UNKNOWN" /\ result.kind = "return"
           /\ enum_member(Unknown, arg.key).kind = "return") =>
          result.value.concept_id = enum_member(Unknown, arg.key).value
    /\ (op = "is_unknown"
           /\ \/ arg.concept_id = None
              \/ \E k \in DOMAIN UNKNOWN : arg.concept_id = Some(UNKNOWN[k].concept_id)) =>
          result = Return(TRUE)

====
